---- MODULE Spec2Model ----
(***************************************************************************)
(* Model of MessageStorageService (src/src/lib/messageStorage.ts): the    *)
(* message ledger, the viewer identity, the chat-type cache, the three    *)
(* per-category result caches and the freshness epoch, with one action    *)
(* per public method.                                                      *)
(***************************************************************************)
EXTENDS Integers, Sequences, FiniteSets, TLC

VARIABLES
  messages,                 \* private messages: Message[]
  personalMessagesCache,    \* Map<string, Message[]>
  newsMessagesCache,        \* Map<string, Message[]>
  discussionMessagesCache,  \* Map<string, Message[]>
  chatTypeCache,            \* Map<string, ChatType>
  currentUserId,            \* number | null
  lastCategorization,       \* number, 0 until a categorization is stamped
  ret,                      \* what the last call returned, and what each retrieval
                            \* returned most recently since the last mutating call
  page                      \* the page that shares the store: where its fetch and
                            \* refresh flows are, and what it last published

vars == <<messages, personalMessagesCache, newsMessagesCache, discussionMessagesCache,
          chatTypeCache, currentUserId, lastCategorization, ret, page>>

----------------------------------------------------------------------------
(* Values *)

\* enum ChatType
PERSONAL == "personal"

NEWS == "news"

DISCUSSION == "discussion"

UNKNOWN == "unknown"

ChatType == {PERSONAL, NEWS, DISCUSSION, UNKNOWN}

\* null / undefined in a place where the code expects a number (currentUserId = null,
\* fromUserId = null, an absent id). No id of the model is negative.
Null == -1

\* Mutant of TruthyNum: the test `!== 0` in place of truthiness, which takes null
\* for a set value.
TruthyNum_nullIsSet(n) == n # 0

\* Mutant of TruthyNum: the test `!== null` in place of truthiness, which takes 0
\* for a set value.
TruthyNum_zeroIsSet(n) == n # Null

\* JavaScript truthiness of a number-or-null and of a string-or-undefined
\* (an absent string is modelled by "", which is falsy like undefined).
TruthyNum(n) == n # Null /\ n # 0

TruthyStr(s) == s # ""

\* A peer reference { _: kind, user_id | chat_id | channel_id: id }; NoPeer is undefined.
Peer(kind, id) == [kind |-> kind, id |-> id]

NoPeer == [kind |-> "undefined", id |-> Null]

\* The chat info attached to a message as message.peerId; NoChat is undefined.
\* participants_count 0 stands for an absent count too: the code only tests
\* `=== 2` and `count && count > 2`, which do not tell 0 from undefined.
Chat(kind, id, title, bot, count) ==
  [kind |-> kind, id |-> id, title |-> title, bot |-> bot, participants_count |-> count]

NoChat == [kind |-> "undefined", id |-> Null, title |-> "", bot |-> FALSE,
           participants_count |-> 0]

IsDefined(x) == x.kind # "undefined"

Msg(id, peer, from, chat) == [id |-> id, peer_id |-> peer, from_id |-> from, peerId |-> chat]

\* An empty Map
EmptyMap == [k \in {} |-> UNKNOWN]

MapHas(m, k) == k \in DOMAIN m

MapSet(m, k, v) == [x \in (DOMAIN m) \cup {k} |-> IF x = k THEN v ELSE m[x]]

----------------------------------------------------------------------------------------------------------------------------------------
(* Strings: Number.prototype.toString, String.prototype.toLowerCase, RegExp.test.     *)
(* A string of the source is written in its JSON form: a character outside ASCII is   *)
(* the escape \uXXXX of each of its UTF-16 code units, in lower-case hexadecimal (a   *)
(* regional-indicator flag glyph is four code units), and a backslash, a quotation    *)
(* mark or a control character is its two-character JSON escape. Searching and case   *)
(* mapping work on the code units of a string, never on the characters of its         *)
(* written form.                                                                       *)

Digit == <<"0", "1", "2", "3", "4", "5", "6", "7", "8", "9">>

RECURSIVE toString(_)
toString(n) == IF n < 10 THEN Digit[n + 1] ELSE toString(n \div 10) \o Digit[(n % 10) + 1]

Upper == <<"A", "B", "C", "D", "E", "F", "G", "H", "I", "J", "K", "L", "M",
           "N", "O", "P", "Q", "R", "S", "T", "U", "V", "W", "X", "Y", "Z">>

Lower == <<"a", "b", "c", "d", "e", "f", "g", "h", "i", "j", "k", "l", "m",
           "n", "o", "p", "q", "r", "s", "t", "u", "v", "w", "x", "y", "z">>

LowerChar(c) == IF \E i \in 1..26 : Upper[i] = c
                THEN Lower[CHOOSE i \in 1..26 : Upper[i] = c]
                ELSE c

\* The Cyrillic capital letters U+0400..U+042F and, at the same index, their small
\* letters. toLowerCase maps these and the ASCII capitals; a capital of another
\* alphabet keeps its case here, and no alternative of a pattern holds such a letter.
CyrillicUpper == <<"\\u0400", "\\u0401", "\\u0402", "\\u0403", "\\u0404", "\\u0405",
                   "\\u0406", "\\u0407", "\\u0408", "\\u0409", "\\u040a", "\\u040b",
                   "\\u040c", "\\u040d", "\\u040e", "\\u040f", "\\u0410", "\\u0411",
                   "\\u0412", "\\u0413", "\\u0414", "\\u0415", "\\u0416", "\\u0417",
                   "\\u0418", "\\u0419", "\\u041a", "\\u041b", "\\u041c", "\\u041d",
                   "\\u041e", "\\u041f", "\\u0420", "\\u0421", "\\u0422", "\\u0423",
                   "\\u0424", "\\u0425", "\\u0426", "\\u0427", "\\u0428", "\\u0429",
                   "\\u042a", "\\u042b", "\\u042c", "\\u042d", "\\u042e", "\\u042f">>

CyrillicLower == <<"\\u0450", "\\u0451", "\\u0452", "\\u0453", "\\u0454", "\\u0455",
                   "\\u0456", "\\u0457", "\\u0458", "\\u0459", "\\u045a", "\\u045b",
                   "\\u045c", "\\u045d", "\\u045e", "\\u045f", "\\u0430", "\\u0431",
                   "\\u0432", "\\u0433", "\\u0434", "\\u0435", "\\u0436", "\\u0437",
                   "\\u0438", "\\u0439", "\\u043a", "\\u043b", "\\u043c", "\\u043d",
                   "\\u043e", "\\u043f", "\\u0440", "\\u0441", "\\u0442", "\\u0443",
                   "\\u0444", "\\u0445", "\\u0446", "\\u0447", "\\u0448", "\\u0449",
                   "\\u044a", "\\u044b", "\\u044c", "\\u044d", "\\u044e", "\\u044f">>

\* The number of characters that write the first code unit of s
UnitLen(s) ==
  IF SubSeq(s, 1, 1) # "\\" \/ Len(s) = 1 THEN 1
  ELSE IF SubSeq(s, 2, 2) = "u" /\ Len(s) >= 6 THEN 6
  ELSE 2

\* The code units of s, in order
RECURSIVE Units(_)
Units(s) ==
  IF Len(s) = 0 THEN <<>>
  ELSE <<SubSeq(s, 1, UnitLen(s))>> \o Units(SubSeq(s, UnitLen(s) + 1, Len(s)))

\* toLowerCase of one code unit
LowerUnit(u) == IF \E i \in 1..Len(CyrillicUpper) : CyrillicUpper[i] = u
                THEN CyrillicLower[CHOOSE i \in 1..Len(CyrillicUpper) : CyrillicUpper[i] = u]
                ELSE LowerChar(u)

RECURSIVE toLowerCase(_)
toLowerCase(s) ==
  IF Len(s) = 0 THEN ""
  ELSE LowerUnit(SubSeq(s, 1, UnitLen(s))) \o toLowerCase(SubSeq(s, UnitLen(s) + 1, Len(s)))

\* String.prototype.includes, and the test of a pattern that is one literal word:
\* kw occurs in s at a boundary of code units
ContainsUnits(units, word) ==
  \E i \in 1..(Len(units) - Len(word) + 1) : SubSeq(units, i, i + Len(word) - 1) = word

Contains(s, kw) == ContainsUnits(Units(s), Units(kw))

\* The letters U+1C80..U+1C86, which a pattern with /i takes for the Cyrillic letter
\* at the same index: their capital is the capital of that letter.
FoldedUnits == <<"\\u1c80", "\\u1c81", "\\u1c82", "\\u1c83", "\\u1c84", "\\u1c85",
                 "\\u1c86">>

FoldedOnto == <<"\\u0432", "\\u0434", "\\u043e", "\\u0441", "\\u0442", "\\u0442",
                "\\u044a">>

\* The code unit that stands for u under /i: two code units match when they have the
\* same capital, and a code unit outside ASCII whose capital is an ASCII letter
\* matches only itself. The small letter stands for every code unit of its capital.
Canonicalize(u) == IF \E i \in 1..Len(FoldedUnits) : FoldedUnits[i] = u
                   THEN FoldedOnto[CHOOSE i \in 1..Len(FoldedUnits) : FoldedUnits[i] = u]
                   ELSE LowerUnit(u)

RECURSIVE CanonicalizeAll(_)
CanonicalizeAll(s) ==
  IF Len(s) = 0 THEN ""
  ELSE Canonicalize(SubSeq(s, 1, UnitLen(s)))
         \o CanonicalizeAll(SubSeq(s, UnitLen(s) + 1, Len(s)))

\* /a|b|c/i.test(s) for a pattern that is an alternation of literal lower-case words
TestAnyI(words, s) == \E w \in words : Contains(CanonicalizeAll(s), w)

\* The alternatives of the pattern of line 16
CHANNEL_PATTERNS == {"channel", "\\u043a\\u0430\\u043d\\u0430\\u043b", "news",
                     "\\u043d\\u043e\\u0432\\u043e\\u0441\\u0442",
                     "\\u0431\\u043b\\u043e\\u0433", "blog", "official",
                     "\\u043e\\u0444\\u0438\\u0446\\u0438\\u0430\\u043b\\u044c\\u043d",
                     "feed", "\\u0431\\u043e\\u0442", "bot", "service", "telegram",
                     "admin", "info", "alert", "notify", "update", "digest", "daily",
                     "weekly", "bulletin", "report", "travel",
                     "\\u0442\\u0443\\u0440\\u0438\\u0437\\u043c", "phangan",
                     "\\u043a\\u0443\\u0440\\u043e\\u0440\\u0442",
                     "\\u043e\\u0442\\u0434\\u044b\\u0445",
                     "\\u043e\\u0442\\u043f\\u0443\\u0441\\u043a",
                     "\\u0442\\u0443\\u0440", "\\u0433\\u0438\\u0434",
                     "\\u044d\\u043a\\u0441\\u043a\\u0443\\u0440\\u0441"}

\* The alternatives of the pattern of line 17
GROUP_PATTERNS == {"group", "\\u0433\\u0440\\u0443\\u043f\\u043f\\u0430", "chat",
                   "\\u0447\\u0430\\u0442", "discuss",
                   "\\u0434\\u0438\\u0441\\u043a\\u0443\\u0441\\u0441", "community",
                   "\\u0441\\u043e\\u043e\\u0431\\u0449\\u0435\\u0441\\u0442\\u0432\\u043e"}

\* The alternatives of the pattern of line 79: the flag glyphs
FlagGlyphs == {"\\ud83c\\udde6\\ud83c\\udde8", "\\ud83c\\udde6\\ud83c\\udde9",
               "\\ud83c\\udde6\\ud83c\\uddea", "\\ud83c\\udde6\\ud83c\\uddeb",
               "\\ud83c\\udde6\\ud83c\\uddec", "\\ud83c\\udde6\\ud83c\\uddee",
               "\\ud83c\\udde6\\ud83c\\uddf1", "\\ud83c\\udde6\\ud83c\\uddf2",
               "\\ud83c\\udde6\\ud83c\\uddf4", "\\ud83c\\udde6\\ud83c\\uddf6",
               "\\ud83c\\udde6\\ud83c\\uddf7", "\\ud83c\\udde6\\ud83c\\uddf8",
               "\\ud83c\\udde6\\ud83c\\uddf9", "\\ud83c\\udde6\\ud83c\\uddfa",
               "\\ud83c\\udde6\\ud83c\\uddfc", "\\ud83c\\udde6\\ud83c\\uddfd",
               "\\ud83c\\udde6\\ud83c\\uddff", "\\ud83c\\udde7\\ud83c\\udde6",
               "\\ud83c\\udde7\\ud83c\\udde7", "\\ud83c\\udde7\\ud83c\\udde9",
               "\\ud83c\\udde7\\ud83c\\uddea", "\\ud83c\\udde7\\ud83c\\uddeb",
               "\\ud83c\\udde7\\ud83c\\uddec", "\\ud83c\\udde7\\ud83c\\udded",
               "\\ud83c\\udde7\\ud83c\\uddee", "\\ud83c\\udde7\\ud83c\\uddef",
               "\\ud83c\\udde7\\ud83c\\uddf1", "\\ud83c\\udde7\\ud83c\\uddf2",
               "\\ud83c\\udde7\\ud83c\\uddf3", "\\ud83c\\udde7\\ud83c\\uddf4",
               "\\ud83c\\udde7\\ud83c\\uddf6", "\\ud83c\\udde7\\ud83c\\uddf7",
               "\\ud83c\\udde7\\ud83c\\uddf8", "\\ud83c\\udde7\\ud83c\\uddf9",
               "\\ud83c\\udde7\\ud83c\\uddfb", "\\ud83c\\udde7\\ud83c\\uddfc",
               "\\ud83c\\udde7\\ud83c\\uddfe", "\\ud83c\\udde7\\ud83c\\uddff",
               "\\ud83c\\udde8\\ud83c\\udde6", "\\ud83c\\udde8\\ud83c\\udde8",
               "\\ud83c\\udde8\\ud83c\\udde9", "\\ud83c\\udde8\\ud83c\\uddeb",
               "\\ud83c\\udde8\\ud83c\\uddec", "\\ud83c\\udde8\\ud83c\\udded",
               "\\ud83c\\udde8\\ud83c\\uddee", "\\ud83c\\udde8\\ud83c\\uddf0",
               "\\ud83c\\udde8\\ud83c\\uddf1", "\\ud83c\\udde8\\ud83c\\uddf2",
               "\\ud83c\\udde8\\ud83c\\uddf3", "\\ud83c\\udde8\\ud83c\\uddf4",
               "\\ud83c\\udde8\\ud83c\\uddf5", "\\ud83c\\udde8\\ud83c\\uddf7",
               "\\ud83c\\udde8\\ud83c\\uddfa", "\\ud83c\\udde8\\ud83c\\uddfb",
               "\\ud83c\\udde8\\ud83c\\uddfc", "\\ud83c\\udde8\\ud83c\\uddfd",
               "\\ud83c\\udde8\\ud83c\\uddfe", "\\ud83c\\udde8\\ud83c\\uddff",
               "\\ud83c\\udde9\\ud83c\\uddea", "\\ud83c\\udde9\\ud83c\\uddec",
               "\\ud83c\\udde9\\ud83c\\uddef", "\\ud83c\\udde9\\ud83c\\uddf0",
               "\\ud83c\\udde9\\ud83c\\uddf2", "\\ud83c\\udde9\\ud83c\\uddf4",
               "\\ud83c\\udde9\\ud83c\\uddff", "\\ud83c\\uddea\\ud83c\\udde6",
               "\\ud83c\\uddea\\ud83c\\udde8", "\\ud83c\\uddea\\ud83c\\uddea",
               "\\ud83c\\uddea\\ud83c\\uddec", "\\ud83c\\uddea\\ud83c\\udded",
               "\\ud83c\\uddea\\ud83c\\uddf7", "\\ud83c\\uddea\\ud83c\\uddf8",
               "\\ud83c\\uddea\\ud83c\\uddf9", "\\ud83c\\uddea\\ud83c\\uddfa",
               "\\ud83c\\uddeb\\ud83c\\uddee", "\\ud83c\\uddeb\\ud83c\\uddef",
               "\\ud83c\\uddeb\\ud83c\\uddf0", "\\ud83c\\uddeb\\ud83c\\uddf2",
               "\\ud83c\\uddeb\\ud83c\\uddf4", "\\ud83c\\uddeb\\ud83c\\uddf7",
               "\\ud83c\\uddec\\ud83c\\udde6", "\\ud83c\\uddec\\ud83c\\udde7",
               "\\ud83c\\uddec\\ud83c\\udde9", "\\ud83c\\uddec\\ud83c\\uddea",
               "\\ud83c\\uddec\\ud83c\\uddeb", "\\ud83c\\uddec\\ud83c\\uddec",
               "\\ud83c\\uddec\\ud83c\\udded", "\\ud83c\\uddec\\ud83c\\uddee",
               "\\ud83c\\uddec\\ud83c\\uddf1", "\\ud83c\\uddec\\ud83c\\uddf2",
               "\\ud83c\\uddec\\ud83c\\uddf3", "\\ud83c\\uddec\\ud83c\\uddf5",
               "\\ud83c\\uddec\\ud83c\\uddf6", "\\ud83c\\uddec\\ud83c\\uddf7",
               "\\ud83c\\uddec\\ud83c\\uddf8", "\\ud83c\\uddec\\ud83c\\uddf9",
               "\\ud83c\\uddec\\ud83c\\uddfa", "\\ud83c\\uddec\\ud83c\\uddfc",
               "\\ud83c\\uddec\\ud83c\\uddfe", "\\ud83c\\udded\\ud83c\\uddf0",
               "\\ud83c\\udded\\ud83c\\uddf2", "\\ud83c\\udded\\ud83c\\uddf3",
               "\\ud83c\\udded\\ud83c\\uddf7", "\\ud83c\\udded\\ud83c\\uddf9",
               "\\ud83c\\udded\\ud83c\\uddfa", "\\ud83c\\uddee\\ud83c\\udde8",
               "\\ud83c\\uddee\\ud83c\\udde9", "\\ud83c\\uddee\\ud83c\\uddea",
               "\\ud83c\\uddee\\ud83c\\uddf1", "\\ud83c\\uddee\\ud83c\\uddf2",
               "\\ud83c\\uddee\\ud83c\\uddf3", "\\ud83c\\uddee\\ud83c\\uddf4",
               "\\ud83c\\uddee\\ud83c\\uddf6", "\\ud83c\\uddee\\ud83c\\uddf7",
               "\\ud83c\\uddee\\ud83c\\uddf8", "\\ud83c\\uddee\\ud83c\\uddf9",
               "\\ud83c\\uddef\\ud83c\\uddea", "\\ud83c\\uddef\\ud83c\\uddf2",
               "\\ud83c\\uddef\\ud83c\\uddf4", "\\ud83c\\uddef\\ud83c\\uddf5",
               "\\ud83c\\uddf0\\ud83c\\uddea", "\\ud83c\\uddf0\\ud83c\\uddec",
               "\\ud83c\\uddf0\\ud83c\\udded", "\\ud83c\\uddf0\\ud83c\\uddee",
               "\\ud83c\\uddf0\\ud83c\\uddf2", "\\ud83c\\uddf0\\ud83c\\uddf3",
               "\\ud83c\\uddf0\\ud83c\\uddf5", "\\ud83c\\uddf0\\ud83c\\uddf7",
               "\\ud83c\\uddf0\\ud83c\\uddfc", "\\ud83c\\uddf0\\ud83c\\uddfe",
               "\\ud83c\\uddf0\\ud83c\\uddff", "\\ud83c\\uddf1\\ud83c\\udde6",
               "\\ud83c\\uddf1\\ud83c\\udde7", "\\ud83c\\uddf1\\ud83c\\udde8",
               "\\ud83c\\uddf1\\ud83c\\uddee", "\\ud83c\\uddf1\\ud83c\\uddf0",
               "\\ud83c\\uddf1\\ud83c\\uddf7", "\\ud83c\\uddf1\\ud83c\\uddf8",
               "\\ud83c\\uddf1\\ud83c\\uddf9", "\\ud83c\\uddf1\\ud83c\\uddfa",
               "\\ud83c\\uddf1\\ud83c\\uddfb", "\\ud83c\\uddf1\\ud83c\\uddfe",
               "\\ud83c\\uddf2\\ud83c\\udde6", "\\ud83c\\uddf2\\ud83c\\udde8",
               "\\ud83c\\uddf2\\ud83c\\udde9", "\\ud83c\\uddf2\\ud83c\\uddea",
               "\\ud83c\\uddf2\\ud83c\\uddeb", "\\ud83c\\uddf2\\ud83c\\uddec",
               "\\ud83c\\uddf2\\ud83c\\udded", "\\ud83c\\uddf2\\ud83c\\uddf0",
               "\\ud83c\\uddf2\\ud83c\\uddf1", "\\ud83c\\uddf2\\ud83c\\uddf2",
               "\\ud83c\\uddf2\\ud83c\\uddf3", "\\ud83c\\uddf2\\ud83c\\uddf4",
               "\\ud83c\\uddf2\\ud83c\\uddf5", "\\ud83c\\uddf2\\ud83c\\uddf6",
               "\\ud83c\\uddf2\\ud83c\\uddf7", "\\ud83c\\uddf2\\ud83c\\uddf8",
               "\\ud83c\\uddf2\\ud83c\\uddf9", "\\ud83c\\uddf2\\ud83c\\uddfa",
               "\\ud83c\\uddf2\\ud83c\\uddfb", "\\ud83c\\uddf2\\ud83c\\uddfc",
               "\\ud83c\\uddf2\\ud83c\\uddfd", "\\ud83c\\uddf2\\ud83c\\uddfe",
               "\\ud83c\\uddf2\\ud83c\\uddff", "\\ud83c\\uddf3\\ud83c\\udde6",
               "\\ud83c\\uddf3\\ud83c\\udde8", "\\ud83c\\uddf3\\ud83c\\uddea",
               "\\ud83c\\uddf3\\ud83c\\uddeb", "\\ud83c\\uddf3\\ud83c\\uddec",
               "\\ud83c\\uddf3\\ud83c\\uddee", "\\ud83c\\uddf3\\ud83c\\uddf1",
               "\\ud83c\\uddf3\\ud83c\\uddf4", "\\ud83c\\uddf3\\ud83c\\uddf5",
               "\\ud83c\\uddf3\\ud83c\\uddf7", "\\ud83c\\uddf3\\ud83c\\uddfa",
               "\\ud83c\\uddf3\\ud83c\\uddff", "\\ud83c\\uddf4\\ud83c\\uddf2",
               "\\ud83c\\uddf5\\ud83c\\udde6", "\\ud83c\\uddf5\\ud83c\\uddea",
               "\\ud83c\\uddf5\\ud83c\\uddeb", "\\ud83c\\uddf5\\ud83c\\uddec",
               "\\ud83c\\uddf5\\ud83c\\udded", "\\ud83c\\uddf5\\ud83c\\uddf0",
               "\\ud83c\\uddf5\\ud83c\\uddf1", "\\ud83c\\uddf5\\ud83c\\uddf2",
               "\\ud83c\\uddf5\\ud83c\\uddf3", "\\ud83c\\uddf5\\ud83c\\uddf7",
               "\\ud83c\\uddf5\\ud83c\\uddf8", "\\ud83c\\uddf5\\ud83c\\uddf9",
               "\\ud83c\\uddf5\\ud83c\\uddfc", "\\ud83c\\uddf5\\ud83c\\uddfe",
               "\\ud83c\\uddf6\\ud83c\\udde6", "\\ud83c\\uddf7\\ud83c\\uddea",
               "\\ud83c\\uddf7\\ud83c\\uddf4", "\\ud83c\\uddf7\\ud83c\\uddf8",
               "\\ud83c\\uddf7\\ud83c\\uddfa", "\\ud83c\\uddf7\\ud83c\\uddfc",
               "\\ud83c\\uddf8\\ud83c\\udde6", "\\ud83c\\uddf8\\ud83c\\udde7",
               "\\ud83c\\uddf8\\ud83c\\udde8", "\\ud83c\\uddf8\\ud83c\\udde9",
               "\\ud83c\\uddf8\\ud83c\\uddea", "\\ud83c\\uddf8\\ud83c\\uddec",
               "\\ud83c\\uddf8\\ud83c\\udded", "\\ud83c\\uddf8\\ud83c\\uddee",
               "\\ud83c\\uddf8\\ud83c\\uddef", "\\ud83c\\uddf8\\ud83c\\uddf0",
               "\\ud83c\\uddf8\\ud83c\\uddf1", "\\ud83c\\uddf8\\ud83c\\uddf2",
               "\\ud83c\\uddf8\\ud83c\\uddf3", "\\ud83c\\uddf8\\ud83c\\uddf4",
               "\\ud83c\\uddf8\\ud83c\\uddf7", "\\ud83c\\uddf8\\ud83c\\uddf8",
               "\\ud83c\\uddf8\\ud83c\\uddf9", "\\ud83c\\uddf8\\ud83c\\uddfb",
               "\\ud83c\\uddf8\\ud83c\\uddfd", "\\ud83c\\uddf8\\ud83c\\uddfe",
               "\\ud83c\\uddf8\\ud83c\\uddff", "\\ud83c\\uddf9\\ud83c\\udde6",
               "\\ud83c\\uddf9\\ud83c\\udde8", "\\ud83c\\uddf9\\ud83c\\udde9",
               "\\ud83c\\uddf9\\ud83c\\uddeb", "\\ud83c\\uddf9\\ud83c\\uddec",
               "\\ud83c\\uddf9\\ud83c\\udded", "\\ud83c\\uddf9\\ud83c\\uddef",
               "\\ud83c\\uddf9\\ud83c\\uddf0", "\\ud83c\\uddf9\\ud83c\\uddf1",
               "\\ud83c\\uddf9\\ud83c\\uddf2", "\\ud83c\\uddf9\\ud83c\\uddf3",
               "\\ud83c\\uddf9\\ud83c\\uddf4", "\\ud83c\\uddf9\\ud83c\\uddf7",
               "\\ud83c\\uddf9\\ud83c\\uddf9", "\\ud83c\\uddf9\\ud83c\\uddfb",
               "\\ud83c\\uddf9\\ud83c\\uddfc", "\\ud83c\\uddf9\\ud83c\\uddff",
               "\\ud83c\\uddfa\\ud83c\\udde6", "\\ud83c\\uddfa\\ud83c\\uddec",
               "\\ud83c\\uddfa\\ud83c\\uddf2", "\\ud83c\\uddfa\\ud83c\\uddf3",
               "\\ud83c\\uddfa\\ud83c\\uddf8", "\\ud83c\\uddfa\\ud83c\\uddfe",
               "\\ud83c\\uddfa\\ud83c\\uddff", "\\ud83c\\uddfb\\ud83c\\udde6",
               "\\ud83c\\uddfb\\ud83c\\udde8", "\\ud83c\\uddfb\\ud83c\\uddea",
               "\\ud83c\\uddfb\\ud83c\\uddec", "\\ud83c\\uddfb\\ud83c\\uddee",
               "\\ud83c\\uddfb\\ud83c\\uddf3", "\\ud83c\\uddfb\\ud83c\\uddfa",
               "\\ud83c\\uddfc\\ud83c\\uddeb", "\\ud83c\\uddfc\\ud83c\\uddf8",
               "\\ud83c\\uddfd\\ud83c\\uddf0", "\\ud83c\\uddfe\\ud83c\\uddea",
               "\\ud83c\\uddfe\\ud83c\\uddf9", "\\ud83c\\uddff\\ud83c\\udde6",
               "\\ud83c\\uddff\\ud83c\\uddf2", "\\ud83c\\uddff\\ud83c\\uddfc"}

\* const hasFlag: the pattern has no /i
hasFlag(chatTitle) == \E glyph \in FlagGlyphs : Contains(chatTitle, glyph)

\* The alternatives of the pattern of line 85, each written once
TravelKeywords == {"\\u0447\\u0435\\u0440\\u043d\\u043e\\u0433\\u043e\\u0440\\u0438",
                   "\\u043f\\u0430\\u043d\\u0433\\u0430\\u0438",
                   "\\u0442\\u0430\\u0438\\u043b\\u0430\\u043d\\u0434",
                   "\\u0431\\u0430\\u043b\\u0438",
                   "\\u0432\\u044c\\u0435\\u0442\\u043d\\u0430\\u043c",
                   "\\u0442\\u0443\\u0440\\u0446\\u0438",
                   "\\u0438\\u0441\\u043f\\u0430\\u043d\\u0438",
                   "\\u0438\\u0442\\u0430\\u043b\\u0438",
                   "\\u0433\\u0440\\u0435\\u0446\\u0438",
                   "\\u043a\\u0438\\u043f\\u0440",
                   "\\u0434\\u0443\\u0431\\u0430\\u0439", "\\u043e\\u0430\\u044d",
                   "\\u044d\\u043c\\u0438\\u0440\\u0430\\u0442",
                   "\\u0435\\u0433\\u0438\\u043f\\u0435\\u0442",
                   "\\u0438\\u043d\\u0434\\u043e\\u043d\\u0435\\u0437\\u0438",
                   "\\u043c\\u0430\\u043b\\u0430\\u0439\\u0437\\u0438",
                   "\\u0441\\u0438\\u043d\\u0433\\u0430\\u043f\\u0443\\u0440",
                   "\\u044f\\u043f\\u043e\\u043d\\u0438",
                   "\\u043a\\u043e\\u0440\\u0435\\u044f",
                   "\\u043a\\u0438\\u0442\\u0430\\u0439",
                   "\\u0433\\u043e\\u043d\\u043a\\u043e\\u043d\\u0433",
                   "\\u043c\\u0430\\u043a\\u0430\\u043e",
                   "\\u0442\\u0430\\u0439\\u0432\\u0430\\u043d\\u044c",
                   "\\u0444\\u0438\\u043b\\u0438\\u043f\\u043f\\u0438\\u043d",
                   "\\u043a\\u0430\\u043c\\u0431\\u043e\\u0434\\u0436",
                   "\\u043b\\u0430\\u043e\\u0441",
                   "\\u043c\\u044c\\u044f\\u043d\\u043c\\u0430",
                   "\\u043d\\u0435\\u043f\\u0430\\u043b",
                   "\\u0438\\u043d\\u0434\\u0438\\u044f",
                   "\\u0448\\u0440\\u0438-\\u043b\\u0430\\u043d\\u043a\\u0430",
                   "\\u043c\\u0430\\u043b\\u044c\\u0434\\u0438\\u0432",
                   "\\u0441\\u0435\\u0439\\u0448\\u0435\\u043b",
                   "\\u043c\\u0430\\u0432\\u0440\\u0438\\u043a\\u0438\\u0439",
                   "\\u0437\\u0430\\u043d\\u0437\\u0438\\u0431\\u0430\\u0440",
                   "\\u0442\\u0430\\u043d\\u0437\\u0430\\u043d\\u0438\\u044f",
                   "\\u043a\\u0435\\u043d\\u0438\\u044f",
                   "\\u043c\\u0430\\u0440\\u043e\\u043a\\u043a\\u043e",
                   "\\u0442\\u0443\\u043d\\u0438\\u0441",
                   "\\u0430\\u043b\\u0436\\u0438\\u0440",
                   "\\u043b\\u0438\\u0432\\u0438\\u044f",
                   "\\u0438\\u043e\\u0440\\u0434\\u0430\\u043d\\u0438\\u044f",
                   "\\u0438\\u0437\\u0440\\u0430\\u0438\\u043b\\u044c",
                   "\\u043b\\u0438\\u0432\\u0430\\u043d",
                   "\\u0441\\u0438\\u0440\\u0438\\u044f",
                   "\\u0438\\u0440\\u0430\\u043d", "\\u0438\\u0440\\u0430\\u043a",
                   "\\u0441\\u0430\\u0443\\u0434\\u043e\\u0432\\u0441\\u043a\\u0430\\u044f \\u0430\\u0440\\u0430\\u0432\\u0438\\u044f",
                   "\\u043a\\u0430\\u0442\\u0430\\u0440",
                   "\\u0431\\u0430\\u0445\\u0440\\u0435\\u0439\\u043d",
                   "\\u043e\\u043c\\u0430\\u043d",
                   "\\u0439\\u0435\\u043c\\u0435\\u043d",
                   "\\u0430\\u0444\\u0433\\u0430\\u043d\\u0438\\u0441\\u0442\\u0430\\u043d",
                   "\\u043f\\u0430\\u043a\\u0438\\u0441\\u0442\\u0430\\u043d",
                   "\\u0431\\u0430\\u043d\\u0433\\u043b\\u0430\\u0434\\u0435\\u0448",
                   "\\u0431\\u0443\\u0442\\u0430\\u043d",
                   "\\u043a\\u0430\\u043c\\u0431\\u043e\\u0434\\u0436\\u0430",
                   "\\u043c\\u0430\\u043b\\u0430\\u0439\\u0437\\u0438\\u044f",
                   "\\u0438\\u043d\\u0434\\u043e\\u043d\\u0435\\u0437\\u0438\\u044f",
                   "\\u0431\\u0440\\u0443\\u043d\\u0435\\u0439",
                   "\\u0444\\u0438\\u043b\\u0438\\u043f\\u043f\\u0438\\u043d\\u044b",
                   "\\u043c\\u043e\\u043d\\u0433\\u043e\\u043b\\u0438\\u044f",
                   "\\u0441\\u0435\\u0432\\u0435\\u0440\\u043d\\u0430\\u044f \\u043a\\u043e\\u0440\\u0435\\u044f",
                   "\\u044e\\u0436\\u043d\\u0430\\u044f \\u043a\\u043e\\u0440\\u0435\\u044f",
                   "\\u044f\\u043f\\u043e\\u043d\\u0438\\u044f",
                   "\\u0440\\u043e\\u0441\\u0441\\u0438\\u044f",
                   "\\u0443\\u043a\\u0440\\u0430\\u0438\\u043d\\u0430",
                   "\\u0431\\u0435\\u043b\\u0430\\u0440\\u0443\\u0441\\u044c",
                   "\\u043c\\u043e\\u043b\\u0434\\u043e\\u0432\\u0430",
                   "\\u0440\\u0443\\u043c\\u044b\\u043d\\u0438\\u044f",
                   "\\u0431\\u043e\\u043b\\u0433\\u0430\\u0440\\u0438\\u044f",
                   "\\u0441\\u0435\\u0440\\u0431\\u0438\\u044f",
                   "\\u0447\\u0435\\u0440\\u043d\\u043e\\u0433\\u043e\\u0440\\u0438\\u044f",
                   "\\u0431\\u043e\\u0441\\u043d\\u0438\\u044f \\u0438 \\u0433\\u0435\\u0440\\u0446\\u0435\\u0433\\u043e\\u0432\\u0438\\u043d\\u0430",
                   "\\u0445\\u043e\\u0440\\u0432\\u0430\\u0442\\u0438\\u044f",
                   "\\u0441\\u043b\\u043e\\u0432\\u0435\\u043d\\u0438\\u044f",
                   "\\u0432\\u0435\\u043d\\u0433\\u0440\\u0438\\u044f",
                   "\\u0430\\u0432\\u0441\\u0442\\u0440\\u0438\\u044f",
                   "\\u0447\\u0435\\u0445\\u0438\\u044f",
                   "\\u0441\\u043b\\u043e\\u0432\\u0430\\u043a\\u0438\\u044f",
                   "\\u043f\\u043e\\u043b\\u044c\\u0448\\u0430",
                   "\\u043b\\u0438\\u0442\\u0432\\u0430",
                   "\\u043b\\u0430\\u0442\\u0432\\u0438\\u044f",
                   "\\u044d\\u0441\\u0442\\u043e\\u043d\\u0438\\u044f",
                   "\\u0444\\u0438\\u043d\\u043b\\u044f\\u043d\\u0434\\u0438\\u044f",
                   "\\u0448\\u0432\\u0435\\u0446\\u0438\\u044f",
                   "\\u043d\\u043e\\u0440\\u0432\\u0435\\u0433\\u0438\\u044f",
                   "\\u0434\\u0430\\u043d\\u0438\\u044f",
                   "\\u0438\\u0441\\u043b\\u0430\\u043d\\u0434\\u0438\\u044f",
                   "\\u0432\\u0435\\u043b\\u0438\\u043a\\u043e\\u0431\\u0440\\u0438\\u0442\\u0430\\u043d\\u0438\\u044f",
                   "\\u0438\\u0440\\u043b\\u0430\\u043d\\u0434\\u0438\\u044f",
                   "\\u0444\\u0440\\u0430\\u043d\\u0446\\u0438\\u044f",
                   "\\u0431\\u0435\\u043b\\u044c\\u0433\\u0438\\u044f",
                   "\\u043d\\u0438\\u0434\\u0435\\u0440\\u043b\\u0430\\u043d\\u0434\\u044b",
                   "\\u043b\\u044e\\u043a\\u0441\\u0435\\u043c\\u0431\\u0443\\u0440\\u0433",
                   "\\u0433\\u0435\\u0440\\u043c\\u0430\\u043d\\u0438\\u044f",
                   "\\u0448\\u0432\\u0435\\u0439\\u0446\\u0430\\u0440\\u0438\\u044f",
                   "\\u043b\\u0438\\u0445\\u0442\\u0435\\u043d\\u0448\\u0442\\u0435\\u0439\\u043d",
                   "\\u0438\\u0442\\u0430\\u043b\\u0438\\u044f",
                   "\\u0432\\u0430\\u0442\\u0438\\u043a\\u0430\\u043d",
                   "\\u0441\\u0430\\u043d-\\u043c\\u0430\\u0440\\u0438\\u043d\\u043e",
                   "\\u043c\\u0430\\u043b\\u044c\\u0442\\u0430",
                   "\\u0438\\u0441\\u043f\\u0430\\u043d\\u0438\\u044f",
                   "\\u043f\\u043e\\u0440\\u0442\\u0443\\u0433\\u0430\\u043b\\u0438\\u044f",
                   "\\u0430\\u043d\\u0434\\u043e\\u0440\\u0440\\u0430",
                   "\\u043c\\u043e\\u043d\\u0430\\u043a\\u043e",
                   "\\u0433\\u0440\\u0435\\u0446\\u0438\\u044f",
                   "\\u0430\\u043b\\u0431\\u0430\\u043d\\u0438\\u044f",
                   "\\u0441\\u0435\\u0432\\u0435\\u0440\\u043d\\u0430\\u044f \\u043c\\u0430\\u043a\\u0435\\u0434\\u043e\\u043d\\u0438\\u044f",
                   "\\u043a\\u043e\\u0441\\u043e\\u0432\\u043e",
                   "\\u0442\\u0443\\u0440\\u0446\\u0438\\u044f",
                   "\\u0433\\u0440\\u0443\\u0437\\u0438\\u044f",
                   "\\u0430\\u0440\\u043c\\u0435\\u043d\\u0438\\u044f",
                   "\\u0430\\u0437\\u0435\\u0440\\u0431\\u0430\\u0439\\u0434\\u0436\\u0430\\u043d",
                   "\\u043a\\u0430\\u0437\\ufffd\\ufffd\\u0445\\u0441\\u0442\\u0430\\u043d",
                   "\\u0443\\u0437\\u0431\\u0435\\u043a\\u0438\\u0441\\u0442\\u0430\\u043d",
                   "\\u0442\\u0443\\u0440\\u043a\\u043c\\u0435\\u043d\\u0438\\u0441\\u0442\\u0430\\u043d",
                   "\\u043a\\u044b\\u0440\\u0433\\u044b\\u0437\\u0441\\u0442\\u0430\\u043d",
                   "\\u0442\\u0430\\u0434\\u0436\\u0438\\u043a\\u0438\\u0441\\u0442\\u0430\\u043d",
                   "\\u043c\\u0430\\u043b\\u044c\\u0434\\u0438\\u0432\\u044b",
                   "\\u0441\\u0435\\u0439\\u0448\\u0435\\u043b\\u044b",
                   "\\u043a\\u043e\\u043c\\u043e\\u0440\\u044b",
                   "\\u043c\\u0430\\u0434\\u0430\\u0433\\u0430\\u0441\\u043a\\u0430\\u0440",
                   "\\u0443\\u0433\\u0430\\u043d\\u0434\\u0430",
                   "\\u0440\\u0443\\u0430\\u043d\\u0434\\u0430",
                   "\\u0431\\u0443\\u0440\\u0443\\u043d\\u0434\\u0438",
                   "\\u043a\\u043e\\u043d\\u0433\\u043e",
                   "\\u0430\\u043d\\u0433\\u043e\\u043b\\u0430",
                   "\\u043d\\u0430\\u043c\\u0438\\u0431\\u0438\\u044f",
                   "\\u0431\\u043e\\u0442\\u0441\\u0432\\u0430\\u043d\\u0430",
                   "\\u0437\\u0438\\u043c\\u0431\\u0430\\u0431\\u0432\\u0435",
                   "\\u0437\\u0430\\u043c\\u0431\\u0438\\u044f",
                   "\\u043c\\u0430\\u043b\\u0430\\u0432\\u0438",
                   "\\u043c\\u043e\\u0437\\u0430\\u043c\\u0431\\u0438\\u043a",
                   "\\u0441\\u0432\\u0430\\u0437\\u0438\\u043b\\u0435\\u043d\\u0434",
                   "\\u043b\\u0435\\u0441\\u043e\\u0442\\u043e",
                   "\\u044e\\u0436\\u043d\\u0430\\u044f \\u0430\\u0444\\u0440\\u0438\\u043a\\u0430",
                   "\\u0441\\u0443\\u0434\\u0430\\u043d",
                   "\\u044d\\u0440\\u0438\\u0442\\u0440\\u0435\\u044f",
                   "\\u044d\\u0444\\u0438\\u043e\\u043f\\u0438\\u044f",
                   "\\u0434\\u0436\\u0438\\u0431\\u0443\\u0442\\u0438",
                   "\\u0441\\u043e\\u043c\\u0430\\u043b\\u0438",
                   "\\u0433\\u0430\\u0431\\u043e\\u043d",
                   "\\u044d\\u043a\\u0432\\u0430\\u0442\\u043e\\u0440\\u0438\\u0430\\u043b\\u044c\\u043d\\u0430\\u044f \\u0433\\u0432\\u0438\\u043d\\u0435\\u044f",
                   "\\u043a\\u0430\\u043c\\u0435\\u0440\\u0443\\u043d",
                   "\\u043d\\u0438\\u0433\\u0435\\u0440\\u0438\\u044f",
                   "\\u0431\\u0435\\u043d\\u0438\\u043d",
                   "\\u0442\\u043e\\u0433\\u043e", "\\u0433\\u0430\\u043d\\u0430",
                   "\\u043a\\u043e\\u0442-\\u0434'\\u0438\\u0432\\u0443\\u0430\\u0440",
                   "\\u043b\\u0438\\u0431\\u0435\\u0440\\u0438\\u044f",
                   "\\u0441\\u044c\\u0435\\u0440\\u0440\\u0430-\\u043b\\u0435\\u043e\\u043d\\u0435",
                   "\\u0433\\u0432\\u0438\\u043d\\u0435\\u044f",
                   "\\u0433\\u0432\\u0438\\u043d\\u0435\\u044f-\\u0431\\u0438\\u0441\\u0430\\u0443",
                   "\\u0441\\u0435\\u043d\\u0435\\u0433\\u0430\\u043b",
                   "\\u0433\\u0430\\u043c\\u0431\\u0438\\u044f",
                   "\\u043a\\u0430\\u0431\\u043e-\\u0432\\u0435\\u0440\\u0434\\u0435",
                   "\\u043c\\u0430\\u0432\\u0440\\u0438\\u0442\\u0430\\u043d\\u0438\\u044f",
                   "\\u043c\\u0430\\u043b\\u0438",
                   "\\u0431\\u0443\\u0440\\u043a\\u0438\\u043d\\u0430-\\u0444\\u0430\\u0441\\u043e",
                   "\\u043d\\u0438\\u0433\\u0435\\u0440", "\\u0447\\u0430\\u0434",
                   "\\u0446\\u0435\\u043d\\u0442\\u0440\\u0430\\u043b\\u044c\\u043d\\u043e\\u0430\\u0444\\u0440\\u0438\\u043a\\u0430\\u043d\\u0441\\u043a\\u0430\\u044f \\u0440\\u0435\\u0441\\u043f\\u0443\\u0431\\u043b\\u0438\\u043a\\u0430",
                   "\\u044e\\u0436\\u043d\\u044b\\u0439 \\u0441\\u0443\\u0434\\u0430\\u043d",
                   "\\u0440\\u0435\\u044e\\u043d\\u044c\\u043e\\u043d",
                   "\\u043c\\u0430\\u0439\\u043e\\u0442\\u0442\\u0430",
                   "\\u043a\\u0430\\u043d\\u0430\\u0434\\u0430",
                   "\\u0441\\u0448\\u0430",
                   "\\u043c\\u0435\\u043a\\u0441\\u0438\\u043a\\u0430",
                   "\\u0433\\u0432\\u0430\\u0442\\u0435\\u043c\\u0430\\u043b\\u0430",
                   "\\u0431\\u0435\\u043b\\u0438\\u0437",
                   "\\u0441\\u0430\\u043b\\u044c\\u0432\\u0430\\u0434\\u043e\\u0440",
                   "\\u0433\\u043e\\u043d\\u0434\\u0443\\u0440\\u0430\\u0441",
                   "\\u043d\\u0438\\u043a\\u0430\\u0440\\u0430\\u0433\\u0443\\u0430",
                   "\\u043a\\u043e\\u0441\\u0442\\u0430-\\u0440\\u0438\\u043a\\u0430",
                   "\\u043f\\u0430\\u043d\\u0430\\u043c\\u0430",
                   "\\u043a\\u043e\\u043b\\u0443\\u043c\\u0431\\u0438\\u044f",
                   "\\u0432\\u0435\\u043d\\u0435\\u0441\\u0443\\u044d\\u043b\\u0430",
                   "\\u0433\\u0430\\u0439\\u0430\\u043d\\u0430",
                   "\\u0441\\u0443\\u0440\\u0438\\u043d\\u0430\\u043c",
                   "\\u0444\\u0440\\u0430\\u043d\\u0446\\u0443\\u0437\\u0441\\u043a\\u0430\\u044f \\u0433\\u0432\\u0438\\u0430\\u043d\\u0430",
                   "\\u0431\\u0440\\u0430\\u0437\\u0438\\u043b\\u0438\\u044f",
                   "\\u043f\\u0435\\u0440\\u0443",
                   "\\u044d\\u043a\\u0432\\u0430\\u0434\\u043e\\u0440",
                   "\\u0431\\u043e\\u043b\\u0438\\u0432\\u0438\\u044f",
                   "\\u043f\\u0430\\u0440\\u0430\\u0433\\u0432\\u0430\\u0439",
                   "\\u0447\\u0438\\u043b\\u0438",
                   "\\u0430\\u0440\\u0433\\u0435\\u043d\\u0442\\u0438\\u043d\\u0430",
                   "\\u0443\\u0440\\u0443\\u0433\\u0432\\u0430\\u0439",
                   "\\u0444\\u043e\\u043b\\u043a\\u043b\\u0435\\u043d\\u0434\\u0441\\u043a\\u0438\\u0435 \\u043e\\u0441\\u0442\\u0440\\u043e\\u0432\\u0430",
                   "\\u0430\\u0432\\u0441\\u0442\\u0440\\u0430\\u043b\\u0438\\u044f",
                   "\\u043d\\u043e\\u0432\\u0430\\u044f \\u0437\\u0435\\u043b\\u0430\\u043d\\u0434\\u0438\\u044f",
                   "\\u043f\\u0430\\u043f\\u0443\\u0430-\\u043d\\u043e\\u0432\\u0430\\u044f \\u0433\\u0432\\u0438\\u043d\\u0435\\u044f",
                   "\\u0441\\u043e\\u043b\\u043e\\u043c\\u043e\\u043d\\u043e\\u0432\\u044b \\u043e\\u0441\\u0442\\u0440\\u043e\\u0432\\u0430",
                   "\\u0432\\u0430\\u043d\\u0443\\u0430\\u0442\\u0443",
                   "\\u0444\\u0438\\u0434\\u0436\\u0438",
                   "\\u0442\\u043e\\u043d\\u0433\\u0430",
                   "\\u0441\\u0430\\u043c\\u043e\\u0430",
                   "\\u043a\\u0438\\u0440\\u0438\\u0431\\u0430\\u0442\\u0438",
                   "\\u0442\\u0443\\u0432\\u0430\\u043b\\u0443",
                   "\\u043d\\u0430\\u0443\\u0440\\u0443",
                   "\\u043c\\u0430\\u0440\\u0448\\u0430\\u043b\\u043b\\u043e\\u0432\\u044b \\u043e\\u0441\\u0442\\u0440\\u043e\\u0432\\u0430",
                   "\\u0444\\u0435\\u0434\\u0435\\u0440\\u0430\\u0442\\u0438\\u0432\\u043d\\u044b\\u0435 \\u0448\\u0442\\u0430\\u0442\\u044b \\u043c\\u0438\\u043a\\u0440\\u043e\\u043d\\u0435\\u0437\\u0438\\u0438",
                   "\\u043f\\u0430\\u043b\\u0430\\u0443",
                   "\\u0433\\u0443\\u0430\\u043c",
                   "\\u0441\\u0435\\u0432\\u0435\\u0440\\u043d\\u044b\\u0435 \\u043c\\u0430\\u0440\\u0438\\u0430\\u043d\\u0441\\u043a\\u0438\\u0435 \\u043e\\u0441\\u0442\\u0440\\u043e\\u0432\\u0430",
                   "\\u0430\\u043c\\u0435\\u0440\\u0438\\u043a\\u0430\\u043d\\u0441\\u043a\\u043e\\u0435 \\u0441\\u0430\\u043c\\u043e\\u0430",
                   "\\u0444\\u0440\\u0430\\u043d\\u0446\\u0443\\u0437\\u0441\\u043a\\u0430\\u044f \\u043f\\u043e\\u043b\\u0438\\u043d\\u0435\\u0437\\u0438\\u044f",
                   "\\u043d\\u043e\\u0432\\u0430\\u044f \\u043a\\u0430\\u043b\\u0435\\u0434\\u043e\\u043d\\u0438\\u044f",
                   "\\u0443\\u043e\\u043b\\u043b\\u0438\\u0441 \\u0438 \\u0444\\u0443\\u0442\\u0443\\u043d\\u0430",
                   "\\u0442\\u043e\\u043a\\u0435\\u043b\\u0430\\u0443",
                   "\\u043d\\u0438\\u0443\\u044d",
                   "\\u043e\\u0441\\u0442\\u0440\\u043e\\u0432\\u0430 \\u043a\\u0443\\u043a\\u0430",
                   "\\u043f\\u0438\\u0442\\u043a\\u044d\\u0440\\u043d",
                   "\\u0430\\u043d\\u0442\\u0430\\u0440\\u043a\\u0442\\u0438\\u0434\\u0430"}

\* const hasTravelKeywords: the pattern, which has no /i, on chatTitle.toLowerCase()
hasTravelKeywords(chatTitle) == \E w \in TravelKeywords : Contains(chatTitle, w)

\* The chat titles of the model ("" is an absent title): the three of the fixture
\* (page.tsx lines 46, 85, 124), titles that meet one Cyrillic alternative of the group
\* pattern, of the channel pattern and of the travel pattern, and ASCII titles. The
\* result of each pattern on each of them is computed once.
FixtureTravelTitle == "\\u0427\\u0435\\u0440\\u043d\\u043e\\u0433\\u043e\\u0440\\u0438\\u044f \\ud83c\\uddf2\\ud83c\\uddea TravelAsk"

FixtureIslandTitle == "\\u041f\\u0430\\u043d\\u0433\\u0430\\u0438 \\u041a\\u043e-Phangan"

FixtureGroupTitle == "\\u0421\\u043c\\u044b\\u0441\\u043b\\u044b \\u0441\\u0430\\u043c\\u043e\\u043e\\u0447\\u0435\\u0432\\u0438\\u0434\\u043d\\u043e\\u0433\\u043e"

Titles == {"", "Crypto News Daily", "Dev Community", "Family", "Project Discussion",
           "Travel Chat", "Montenegro \\ud83c\\uddf2\\ud83c\\uddea",
           FixtureTravelTitle, FixtureIslandTitle, FixtureGroupTitle,
           "\\u041d\\u0430\\u0448 \\u0447\\u0430\\u0442",
           "\\u041d\\u043e\\u0432\\u043e\\u0441\\u0442\\u0438 \\u0434\\u043d\\u044f",
           "\\u0422\\u0430\\u0438\\u043b\\u0430\\u043d\\u0434"}

ChannelTitles == {t \in Titles : TestAnyI(CHANNEL_PATTERNS, t)}

GroupTitles == {t \in Titles : TestAnyI(GROUP_PATTERNS, t)}

FlagTitles == {t \in Titles : hasFlag(t)}

TravelTitles == {t \in Titles : hasTravelKeywords(toLowerCase(t))}

\* CHANNEL_PATTERNS.test(chatTitle)
testChannelPatterns(chatTitle) ==
  IF chatTitle \in Titles THEN chatTitle \in ChannelTitles
  ELSE TestAnyI(CHANNEL_PATTERNS, chatTitle)

\* GROUP_PATTERNS.test(chatTitle)
testGroupPatterns(chatTitle) ==
  IF chatTitle \in Titles THEN chatTitle \in GroupTitles
  ELSE TestAnyI(GROUP_PATTERNS, chatTitle)

isPublicChannelByName(chatTitle) ==
  IF ~TruthyStr(chatTitle) THEN FALSE
  ELSE IF chatTitle \in Titles
       THEN chatTitle \in FlagTitles \/ chatTitle \in ChannelTitles
              \/ chatTitle \in TravelTitles
  ELSE hasFlag(chatTitle) \/ TestAnyI(CHANNEL_PATTERNS, chatTitle)
         \/ hasTravelKeywords(toLowerCase(chatTitle))

----------------------------------------------------------------------------
(* The observation: ret.op, ret.arg, ret.value and ret.threw describe the last call    *)
(* (ret.arg holds the arguments it was given and, for setCurrentUserId, the viewer    *)
(* identity before the call; ret.value is what it returned);                          *)
(* ret.called and ret.last give, for each retrieval called since the last mutating    *)
(* call (the constructor, setCurrentUserId, clearCaches, addMessages,                 *)
(* recategorizeAllMessages), the sequence it returned most recently.                  *)

NoArg == [chat |-> NoChat, message |-> Msg(0, NoPeer, NoPeer, NoChat), category |-> UNKNOWN,
          userId |-> Null, batch |-> <<>>, before |-> Null]

NoneReturned == [personal |-> <<>>, news |-> <<>>, discussion |-> <<>>]

Mutated(op) == [op |-> op, arg |-> NoArg, value |-> FALSE, threw |-> FALSE,
                called |-> {}, last |-> NoneReturned]

Called(op, arg, r) == [ret EXCEPT !.op = op, !.arg = arg, !.value = r.value,
                                  !.threw = r.threw]

Retrieved(op, category, r) ==
  IF r.threw THEN Called(op, NoArg, r)
  ELSE [Called(op, NoArg, r) EXCEPT !.called = @ \cup {category},
                                    !.last = [@ EXCEPT ![category] = r.value]]

Grouped(op, r) ==
  IF r.threw THEN Called(op, NoArg, r)
  ELSE [Called(op, NoArg, r) EXCEPT !.called = {PERSONAL, NEWS, DISCUSSION},
                                    !.last = r.value]

SetFields(s) ==
  /\ messages' = s.messages
  /\ personalMessagesCache' = s.personalMessagesCache
  /\ newsMessagesCache' = s.newsMessagesCache
  /\ discussionMessagesCache' = s.discussionMessagesCache
  /\ chatTypeCache' = s.chatTypeCache
  /\ currentUserId' = s.currentUserId
  /\ lastCategorization' = s.lastCategorization

\* A call on the service made by a caller other than the page's flows
SetStore(s) == SetFields(s) /\ UNCHANGED page

----------------------------------------------------------------------------
(* The service. A store s is the record of the object's fields; a method that    *)
(* returns a value gives [s |-> the store after the call, value |-> its result,   *)
(* threw |-> whether it ended in an exception instead of returning].              *)

Store == [messages |-> messages,
          personalMessagesCache |-> personalMessagesCache,
          newsMessagesCache |-> newsMessagesCache,
          discussionMessagesCache |-> discussionMessagesCache,
          chatTypeCache |-> chatTypeCache,
          currentUserId |-> currentUserId,
          lastCategorization |-> lastCategorization]

Returns(s, v) == [s |-> s, value |-> v, threw |-> FALSE]

Throws(s) == [s |-> s, value |-> FALSE, threw |-> TRUE]

\* Mutant of clearCaches: without `this.personalMessagesCache.clear()`.
clearCaches_keepsPersonal(s) ==
  [s EXCEPT !.newsMessagesCache = EmptyMap,
            !.discussionMessagesCache = EmptyMap,
            !.chatTypeCache = EmptyMap,
            !.lastCategorization = 0]

\* Mutant of clearCaches: without `this.chatTypeCache.clear()`.
clearCaches_keepsChatTypes(s) ==
  [s EXCEPT !.personalMessagesCache = EmptyMap,
            !.newsMessagesCache = EmptyMap,
            !.discussionMessagesCache = EmptyMap,
            !.lastCategorization = 0]

clearCaches(s) ==
  [s EXCEPT !.personalMessagesCache = EmptyMap,
            !.newsMessagesCache = EmptyMap,
            !.discussionMessagesCache = EmptyMap,
            !.chatTypeCache = EmptyMap,
            !.lastCategorization = 0]

\* Mutant of setCurrentUserId: the caches are cleared and the identity is not stored.
setCurrentUserId_keepsIdentity(s, userId) == clearCaches(s)

\* Mutant of setCurrentUserId: the identity is stored and the caches are kept.
setCurrentUserId_keepsCaches(s, userId) == [s EXCEPT !.currentUserId = userId]

setCurrentUserId(s, userId) == clearCaches([s EXCEPT !.currentUserId = userId])

\* Mutant of addMessages: the batch replaces the ledger (`this.messages = messages`).
addMessages_replaces(s, batch) == clearCaches([s EXCEPT !.messages = batch])

\* Mutant of addMessages: the batch is put in front of the ledger
\* (`[...messages, ...this.messages]`).
addMessages_prepends(s, batch) == clearCaches([s EXCEPT !.messages = batch \o s.messages])

\* Mutant of addMessages: the batch is appended and the caches are kept.
addMessages_keepsCaches(s, batch) == [s EXCEPT !.messages = s.messages \o batch]

\* Mutant of addMessages: a message the ledger already holds is not appended again.
addMessages_dedups(s, batch) ==
  LET Fresh(m) == \A i \in 1..Len(s.messages) : s.messages[i] # m
  IN clearCaches([s EXCEPT !.messages = s.messages \o SelectSeq(batch, Fresh)])

addMessages(s, batch) == clearCaches([s EXCEPT !.messages = s.messages \o batch])

\* Mutant of recategorizeAllMessages: the epoch is stamped and the caches are kept.
recategorizeAllMessages_keepsCaches(s, now) == [s EXCEPT !.lastCategorization = now]

recategorizeAllMessages(s, now) == [clearCaches(s) EXCEPT !.lastCategorization = now]

\* Mutant of computeChatType: the sender rule of line 137 comes before the kind rules.
computeChatType_senderBeforeKind(chat, message) ==
  IF TruthyStr(chat.title) /\ isPublicChannelByName(chat.title) THEN NEWS
  ELSE IF TruthyStr(chat.title) /\ testGroupPatterns(chat.title) THEN DISCUSSION
  ELSE IF IsDefined(message.from_id) /\ message.from_id.kind = "peerChannel" THEN NEWS
  ELSE IF chat.kind = "user" THEN (IF chat.bot THEN NEWS ELSE PERSONAL)
  ELSE IF chat.kind = "chat" /\ chat.participants_count = 2 THEN PERSONAL
  ELSE IF chat.kind = "channel" \/ chat.kind = "channelFull" THEN NEWS
  ELSE IF \/ chat.kind = "chat"
          \/ chat.kind = "chatFull"
          \/ (chat.participants_count # 0 /\ chat.participants_count > 2)
       THEN DISCUSSION
  ELSE UNKNOWN

\* Mutant of computeChatType: the kind rules of lines 120-149 come first and the
\* title rules decide only what they leave Unknown.
computeChatType_kindBeforeTitle(chat, message) ==
  IF chat.kind = "user" THEN (IF chat.bot THEN NEWS ELSE PERSONAL)
  ELSE IF chat.kind = "chat" /\ chat.participants_count = 2 THEN PERSONAL
  ELSE IF \/ chat.kind = "channel"
          \/ chat.kind = "channelFull"
          \/ (IsDefined(message.from_id) /\ message.from_id.kind = "peerChannel")
       THEN NEWS
  ELSE IF \/ chat.kind = "chat"
          \/ chat.kind = "chatFull"
          \/ (chat.participants_count # 0 /\ chat.participants_count > 2)
       THEN DISCUSSION
  ELSE IF TruthyStr(chat.title) /\ isPublicChannelByName(chat.title) THEN NEWS
  ELSE IF TruthyStr(chat.title) /\ testGroupPatterns(chat.title) THEN DISCUSSION
  ELSE UNKNOWN

\* Lines 103-149: the type of a chat that is not in the cache
computeChatType(chat, message) ==
  IF TruthyStr(chat.title) /\ isPublicChannelByName(chat.title) THEN NEWS
  ELSE IF TruthyStr(chat.title) /\ testGroupPatterns(chat.title) THEN DISCUSSION
  ELSE IF chat.kind = "user" THEN (IF chat.bot THEN NEWS ELSE PERSONAL)
  ELSE IF chat.kind = "chat" /\ chat.participants_count = 2 THEN PERSONAL
  ELSE IF \/ chat.kind = "channel"
          \/ chat.kind = "channelFull"
          \/ (IsDefined(message.from_id) /\ message.from_id.kind = "peerChannel")
       THEN NEWS
  ELSE IF \/ chat.kind = "chat"
          \/ chat.kind = "chatFull"
          \/ (chat.participants_count # 0 /\ chat.participants_count > 2)
       THEN DISCUSSION
  ELSE UNKNOWN

\* Lines 151-153: this.chatTypeCache.set(chatId, chatType); return chatType
cacheChatType(s, chatId, chatType) ==
  Returns([s EXCEPT !.chatTypeCache = MapSet(@, chatId, chatType)], chatType)

\* Mutant of determineChatType: the cache is written and never read.
determineChatType_noLookup(s, chat, message) ==
  IF chat.id = Null THEN Throws(s)
  ELSE cacheChatType(s, toString(chat.id), computeChatType(chat, message))

\* chat.id.toString() throws a TypeError when the chat info carries no id.
determineChatType(s, chat, message) ==
  IF chat.id = Null THEN Throws(s)
  ELSE LET chatId == toString(chat.id) IN
       IF MapHas(s.chatTypeCache, chatId) THEN Returns(s, s.chatTypeCache[chatId])
       ELSE cacheChatType(s, chatId, computeChatType(chat, message))

\* `chatType === ChatType.X` on the outcome r of a determineChatType call
\* (lines 210 and 416-419); an exception of the call goes on to the caller.
typeIs(r, category) == IF r.threw THEN r ELSE Returns(r.s, r.value = category)

\* fromUserId of lines 190-192 and 396-398
fromUserIdOf(message) ==
  IF IsDefined(message.from_id) /\ message.from_id.kind = "peerUser"
  THEN message.from_id.id ELSE Null

verifyMessageCategory(s, message, category) ==
  IF ~IsDefined(message.peer_id) THEN Returns(s, FALSE)
  ELSE LET chat == message.peerId IN
  IF ~IsDefined(chat) THEN Returns(s, FALSE)
  ELSE IF category = PERSONAL /\ chat.kind = "user" /\ chat.bot THEN Returns(s, FALSE)
  ELSE IF category = PERSONAL /\ TruthyStr(chat.title) /\ isPublicChannelByName(chat.title)
       THEN Returns(s, FALSE)
  ELSE IF /\ category = PERSONAL
          /\ TruthyNum(s.currentUserId)
          /\ LET fromUserId == fromUserIdOf(message)
                 toUserId == IF message.peer_id.kind = "peerUser"
                             THEN message.peer_id.id ELSE Null
             IN ~(fromUserId = s.currentUserId \/ toUserId = s.currentUserId)
       THEN Returns(s, FALSE)
  ELSE typeIs(determineChatType(s, chat, message), category)

isPersonalMessage(s, message) ==
  IF ~TruthyNum(s.currentUserId) THEN Returns(s, FALSE)
  ELSE IF ~IsDefined(message.peer_id) THEN Returns(s, FALSE)
  ELSE IF message.peer_id.kind = "peerChannel" \/ message.peer_id.kind = "peerChat"
       THEN Returns(s, FALSE)
  ELSE IF message.peer_id.kind = "peerUser" THEN
       LET chat == message.peerId
           fromUserId == fromUserIdOf(message)
           toUserId == message.peer_id.id
       IN IF IsDefined(chat) /\ chat.kind = "user" /\ chat.bot THEN Returns(s, FALSE)
          ELSE IF IsDefined(chat) /\ TruthyStr(chat.title) /\ isPublicChannelByName(chat.title)
               THEN Returns(s, FALSE)
          ELSE IF ~(fromUserId = s.currentUserId \/ toUserId = s.currentUserId)
               THEN Returns(s, FALSE)
          ELSE IF IsDefined(chat)
               THEN typeIs(determineChatType(s, chat, message), PERSONAL)
          ELSE Returns(s, TRUE)
  ELSE Returns(s, FALSE)

\* Lines 235-250: what the callback does with the outcome p of isPersonalMessage
personalFilterVerify(p, message) ==
  IF p.threw \/ ~p.value THEN p
  ELSE LET chat == message.peerId IN
       IF IsDefined(chat)
       THEN IF TruthyStr(chat.title) /\ isPublicChannelByName(chat.title)
            THEN Returns(p.s, FALSE)
            ELSE verifyMessageCategory(p.s, message, PERSONAL)
       ELSE Returns(p.s, TRUE)

\* The filter callback of getPersonalMessages, lines 233-251
personalFilter(s, message) == personalFilterVerify(isPersonalMessage(s, message), message)

\* Mutant of newsFilter: without the title rule of lines 280-283, so that a titled
\* channel or bot is decided by the type of its chat id.
newsFilter_kindBeforeTitle(s, message) ==
  IF ~IsDefined(message.peer_id) THEN Returns(s, FALSE)
  ELSE LET chat == message.peerId IN
  IF \/ message.peer_id.kind = "peerChannel"
     \/ (message.peer_id.kind = "peerUser" /\ IsDefined(chat)
           /\ chat.kind = "user" /\ chat.bot)
  THEN verifyMessageCategory(s, message, NEWS)
  ELSE IF IsDefined(chat) /\ TruthyStr(chat.title) /\ testChannelPatterns(chat.title)
       THEN Returns(s, TRUE)
  ELSE Returns(s, FALSE)

\* The filter callback of getNewsMessages, lines 273-297
newsFilter(s, message) ==
  IF ~IsDefined(message.peer_id) THEN Returns(s, FALSE)
  ELSE LET chat == message.peerId IN
  IF IsDefined(chat) /\ TruthyStr(chat.title) /\ isPublicChannelByName(chat.title)
  THEN Returns(s, TRUE)
  ELSE IF \/ message.peer_id.kind = "peerChannel"
          \/ (message.peer_id.kind = "peerUser" /\ IsDefined(chat)
                /\ chat.kind = "user" /\ chat.bot)
       THEN verifyMessageCategory(s, message, NEWS)
  ELSE IF IsDefined(chat) /\ TruthyStr(chat.title) /\ testChannelPatterns(chat.title)
       THEN Returns(s, TRUE)
  ELSE Returns(s, FALSE)

\* Mutant of discussionFilter: without the group-title rule of lines 332-335, so that
\* a titled group is decided by the type of its chat id.
discussionFilter_noTitleRule(s, message) ==
  IF ~IsDefined(message.peer_id) THEN Returns(s, FALSE)
  ELSE IF message.peer_id.kind = "peerChat" \/ message.peer_id.kind = "peerChannel" THEN
       LET chat == message.peerId IN
       IF IsDefined(chat) /\ TruthyStr(chat.title) /\ isPublicChannelByName(chat.title)
       THEN Returns(s, FALSE)
       ELSE verifyMessageCategory(s, message, DISCUSSION)
  ELSE Returns(s, FALSE)

\* The filter callback of getDiscussionMessages, lines 319-341
discussionFilter(s, message) ==
  IF ~IsDefined(message.peer_id) THEN Returns(s, FALSE)
  ELSE IF message.peer_id.kind = "peerChat" \/ message.peer_id.kind = "peerChannel" THEN
       LET chat == message.peerId IN
       IF IsDefined(chat) /\ TruthyStr(chat.title) /\ isPublicChannelByName(chat.title)
       THEN Returns(s, FALSE)
       ELSE IF IsDefined(chat) /\ TruthyStr(chat.title) /\ testGroupPatterns(chat.title)
       THEN Returns(s, TRUE)
       ELSE verifyMessageCategory(s, message, DISCUSSION)
  ELSE Returns(s, FALSE)

categoryFilter(category, s, message) ==
  CASE category = PERSONAL -> personalFilter(s, message)
    [] category = NEWS -> newsFilter(s, message)
    [] category = DISCUSSION -> discussionFilter(s, message)

\* this.messages.filter(callback): the callback runs on the messages in ledger order,
\* each call seeing the chat-type cache the earlier calls left; an exception ends it.
RECURSIVE filterMessages(_, _, _, _)
RECURSIVE filterKeep(_, _, _, _)
\* The outcome r of the callback on message i: kept if true, the next message follows
filterKeep(category, r, i, acc) ==
  IF r.threw THEN r
  ELSE filterMessages(category, r.s, i + 1,
                      IF r.value THEN Append(acc, r.s.messages[i]) ELSE acc)

filterMessages(category, s, i, acc) ==
  IF i > Len(s.messages) THEN Returns(s, acc)
  ELSE filterKeep(category, categoryFilter(category, s, s.messages[i]), i, acc)

\* Lines 253-260, 299-306, 343-350: store the result, stamp the epoch if it is zero
\* Mutant of stampEpoch: the epoch is stamped whether or not it is zero.
stampEpoch_always(s, now) == [s EXCEPT !.lastCategorization = now]

stampEpoch(s, now) ==
  IF s.lastCategorization = 0 THEN [s EXCEPT !.lastCategorization = now] ELSE s

\* Lines 253-260
cachePersonal(r, now) ==
  IF r.threw THEN r
  ELSE Returns(stampEpoch([r.s EXCEPT !.personalMessagesCache =
                                         MapSet(@, "personal", r.value)], now),
               r.value)

\* Lines 299-306
cacheNews(r, now) ==
  IF r.threw THEN r
  ELSE Returns(stampEpoch([r.s EXCEPT !.newsMessagesCache =
                                         MapSet(@, "news", r.value)], now),
               r.value)

\* Lines 343-350
cacheDiscussion(r, now) ==
  IF r.threw THEN r
  ELSE Returns(stampEpoch([r.s EXCEPT !.discussionMessagesCache =
                                         MapSet(@, "discussion", r.value)], now),
               r.value)

getPersonalMessages(s, now) ==
  IF ~TruthyNum(s.currentUserId) THEN Returns(s, <<>>)
  ELSE IF MapHas(s.personalMessagesCache, "personal") /\ s.lastCategorization > 0
       THEN Returns(s, s.personalMessagesCache["personal"])
  ELSE cachePersonal(filterMessages(PERSONAL, s, 1, <<>>), now)

getNewsMessages(s, now) ==
  IF MapHas(s.newsMessagesCache, "news") /\ s.lastCategorization > 0
  THEN Returns(s, s.newsMessagesCache["news"])
  ELSE cacheNews(filterMessages(NEWS, s, 1, <<>>), now)

\* Mutant of getDiscussionMessages: a cache hit reads the news cache
\* (`this.newsMessagesCache.get(cacheKey) || []` with cacheKey 'discussion').
getDiscussionMessages_readsNewsCache(s, now) ==
  IF MapHas(s.discussionMessagesCache, "discussion") /\ s.lastCategorization > 0
  THEN Returns(s, IF MapHas(s.newsMessagesCache, "discussion")
                  THEN s.newsMessagesCache["discussion"] ELSE <<>>)
  ELSE cacheDiscussion(filterMessages(DISCUSSION, s, 1, <<>>), now)

getDiscussionMessages(s, now) ==
  IF MapHas(s.discussionMessagesCache, "discussion") /\ s.lastCategorization > 0
  THEN Returns(s, s.discussionMessagesCache["discussion"])
  ELSE cacheDiscussion(filterMessages(DISCUSSION, s, 1, <<>>), now)

\* The object literal's properties are evaluated in source order.
groupedResult(p, n, d) ==
  IF d.threw THEN d
  ELSE Returns(d.s, [personal |-> p.value, news |-> n.value, discussion |-> d.value])

groupedDiscussion(p, n, now) ==
  IF n.threw THEN n ELSE groupedResult(p, n, getDiscussionMessages(n.s, now))

groupedNews(p, now) ==
  IF p.threw THEN p ELSE groupedDiscussion(p, getNewsMessages(p.s, now), now)

getGroupedMessagesByCategory(s, now) == groupedNews(getPersonalMessages(s, now), now)

----------------------------------------------------------------------------
(* The page (src/src/app/messages/page.tsx): categorizeAndVerifyMessages and the     *)
(* part of fetchMessages and of refreshMessages that follows `await                 *)
(* getMockMessages()`. Each runs to its end without an await.                        *)

\* array.filter(msg => messageStorage.verifyMessageCategory(msg, category)): the
\* calls are made in array order, each on the store the earlier ones left.
RECURSIVE verifyEach(_, _, _, _, _)
RECURSIVE verifyKeep(_, _, _, _, _)
verifyKeep(category, r, seq, i, acc) ==
  IF r.threw THEN r
  ELSE verifyEach(category, r.s, seq, i + 1, IF r.value THEN Append(acc, seq[i]) ELSE acc)

verifyEach(category, s, seq, i, acc) ==
  IF i > Len(seq) THEN Returns(s, acc)
  ELSE verifyKeep(category, verifyMessageCategory(s, seq[i], category), seq, i, acc)

\* Lines 183-195: the three filters run in the order personal, news, discussion
verifiedResult(p, n, d) ==
  IF d.threw THEN d
  ELSE Returns(d.s, [personal |-> p.value, news |-> n.value, discussion |-> d.value])

verifiedDiscussion(g, p, n) ==
  IF n.threw THEN n
  ELSE verifiedResult(p, n, verifyEach(DISCUSSION, n.s, g.value.discussion, 1, <<>>))

verifiedNews(g, p) ==
  IF p.threw THEN p
  ELSE verifiedDiscussion(g, p, verifyEach(NEWS, p.s, g.value.news, 1, <<>>))

verifyGrouped(g) ==
  IF g.threw THEN g
  ELSE verifiedNews(g, verifyEach(PERSONAL, g.s, g.value.personal, 1, <<>>))

\* Lines 175-196
categorizeAndVerifyMessages(s, now) ==
  verifyGrouped(getGroupedMessagesByCategory(recategorizeAllMessages(s, now), now))

\* Lines 245-251 of fetchMessages, with the batch getMockMessages resolved to
fetchResume(s, batch, now1, now2) ==
  categorizeAndVerifyMessages(recategorizeAllMessages(addMessages(s, batch), now1), now2)

\* Mutant of refreshResume: the messages are categorized before the batch is added.
refreshResume_groupsBeforeAppend(s, batch, now) ==
  LET r == categorizeAndVerifyMessages(s, now)
  IN [r EXCEPT !.s = addMessages(r.s, batch)]

\* Lines 207-210 of refreshMessages, with the batch getMockMessages resolved to
refreshResume(s, batch, now) == categorizeAndVerifyMessages(addMessages(s, batch), now)

----------------------------------------------------------------------------
(* Inputs *)

\* messageStorage.setCurrentUserId(12345)
ViewerId == 12345

\* The ids of the fixture: the correspondent, a channel, a group, a group member
IvanId == 201

ChannelId == 101

IslandChannelId == 102

GroupId == 103

MemberId == 301

MaxLedger == 2

MaxBatch == 2

MaxClock == 2

\* The clicks on the refresh button
MaxRefresh == 4

\* Date.now(): some positive time
Clock == 1..MaxClock

UserChat == Chat("user", IvanId, "", FALSE, 0)

\* The messages a caller may append: the fixture's shapes (a titled channel, a large
\* group, an incoming and an outgoing direct message) and the shapes the rules of the
\* classifier tell apart. A user and a channel may carry the same numeric id.
Universe == {
  Msg(1, Peer("peerChannel", ChannelId), Peer("peerChannel", ChannelId),
      Chat("channel", ChannelId, "Crypto News Daily", FALSE, 1000)),
  Msg(2, Peer("peerChannel", ChannelId), Peer("peerChannel", ChannelId),
      Chat("channel", ChannelId, "", FALSE, 1000)),
  Msg(3, Peer("peerChannel", ChannelId), Peer("peerUser", IvanId),
      Chat("channel", ChannelId, "Dev Community", FALSE, 800)),
  Msg(4, Peer("peerChat", GroupId), Peer("peerUser", MemberId),
      Chat("chat", GroupId, "Family", FALSE, 50)),
  Msg(5, Peer("peerChat", GroupId), Peer("peerUser", IvanId),
      Chat("chat", GroupId, "Project Discussion", FALSE, 5)),
  Msg(6, Peer("peerChat", GroupId), Peer("peerUser", ViewerId),
      Chat("chat", GroupId, "Family", FALSE, 2)),
  Msg(7, Peer("peerChat", GroupId), Peer("peerChannel", ChannelId),
      Chat("chat", GroupId, "Family", FALSE, 50)),
  Msg(8, Peer("peerUser", IvanId), Peer("peerUser", IvanId), UserChat),
  Msg(9, Peer("peerUser", IvanId), Peer("peerUser", ViewerId), UserChat),
  Msg(10, Peer("peerUser", ChannelId), Peer("peerUser", ChannelId),
      Chat("user", ChannelId, "", TRUE, 0)),
  Msg(11, Peer("peerUser", ViewerId), NoPeer, NoChat),
  Msg(12, NoPeer, Peer("peerUser", IvanId), NoChat),
  Msg(13, Peer("peerUser", IvanId), Peer("peerUser", ViewerId),
      Chat("user", IvanId, "Crypto News Daily", FALSE, 0)),
  Msg(14, Peer("peerChat", GroupId), Peer("peerUser", ViewerId),
      Chat("chat", GroupId, "Travel Chat", FALSE, 2)),
  Msg(15, Peer("peerChat", GroupId), Peer("peerChannel", ChannelId),
      Chat("chat", GroupId, "Project Discussion", FALSE, 5)) }

Batches == UNION {[1..n -> Universe] : n \in 0..MaxBatch}

\* The chats of the fixture of getMockMessages (page.tsx lines 34-171)
TravelChannel == Chat("channel", ChannelId, FixtureTravelTitle, FALSE, 1000)

IslandChannel == Chat("channel", IslandChannelId, FixtureIslandTitle, FALSE, 800)

FixtureGroup == Chat("chat", GroupId, FixtureGroupTitle, FALSE, 50)

\* The ten messages getMockMessages() resolves to, every time it is called
MockMessages == <<
  Msg(1, Peer("peerChannel", ChannelId), Peer("peerChannel", ChannelId), TravelChannel),
  Msg(2, Peer("peerChannel", ChannelId), Peer("peerChannel", ChannelId), TravelChannel),
  Msg(3, Peer("peerChannel", ChannelId), Peer("peerChannel", ChannelId), TravelChannel),
  Msg(4, Peer("peerChannel", IslandChannelId), Peer("peerChannel", IslandChannelId),
      IslandChannel),
  Msg(5, Peer("peerChannel", IslandChannelId), Peer("peerChannel", IslandChannelId),
      IslandChannel),
  Msg(6, Peer("peerChannel", IslandChannelId), Peer("peerChannel", IslandChannelId),
      IslandChannel),
  Msg(7, Peer("peerChat", GroupId), Peer("peerUser", MemberId), FixtureGroup),
  Msg(8, Peer("peerUser", IvanId), Peer("peerUser", IvanId), UserChat),
  Msg(9, Peer("peerUser", IvanId), Peer("peerUser", ViewerId), UserChat),
  Msg(10, Peer("peerUser", IvanId), Peer("peerUser", IvanId), UserChat) >>

MockBatches == {MockMessages}

UserIds == {ViewerId, IvanId}

\* Messages of the weakly typed source whose chat info lacks the id: a group and a
\* direct dialog with the viewer.
Malformed == {
  Msg(16, Peer("peerChat", GroupId), Peer("peerUser", MemberId),
      Chat("chat", Null, "", FALSE, 50)),
  Msg(17, Peer("peerUser", IvanId), Peer("peerUser", ViewerId),
      Chat("user", Null, "", FALSE, 0)) }

\* The chat infos determineChatType tells apart: every kind with every title, bot flag
\* and participant count (absent, two, more than two)
ChatKinds == {"user", "chat", "channel", "chatFull", "channelFull", "chatForbidden"}

ParticipantCounts == {0, 2, 3}

ChatInfos ==
  {Chat(kind, GroupId, title, bot, count) :
     kind \in ChatKinds, title \in Titles, bot \in BOOLEAN, count \in ParticipantCounts}

\* The senders a message of the chat may have: none, a user, a channel
Senders == {NoPeer, Peer("peerUser", IvanId), Peer("peerChannel", ChannelId)}

\* The peer reference of a message in the chat
PeerOf(chat) ==
  Peer(CASE chat.kind = "user" -> "peerUser"
         [] chat.kind \in {"chat", "chatFull", "chatForbidden"} -> "peerChat"
         [] OTHER -> "peerChannel",
       chat.id)

\* The batches that hold a message of Malformed
MalformedBatches ==
  {batch \in UNION {[1..n -> Universe \cup Malformed] : n \in 1..MaxBatch} :
     \E i \in 1..Len(batch) : batch[i] \in Malformed}

----------------------------------------------------------------------------
(* Behaviour *)

\* Lines 13-21: nothing published; the effect and the button have started no flow
PageInit == [fetch |-> "idle", refresh |-> [i \in 1..MaxRefresh |-> "idle"],
             published |-> NoneReturned, log |-> <<>>]

Init ==
  /\ page = PageInit
  /\ messages = <<>>
  /\ personalMessagesCache = EmptyMap
  /\ newsMessagesCache = EmptyMap
  /\ discussionMessagesCache = EmptyMap
  /\ chatTypeCache = EmptyMap
  /\ currentUserId = Null
  /\ lastCategorization = 0
  /\ ret = Mutated("new")

SetCurrentUserId ==
  \E userId \in UserIds :
    /\ SetStore(setCurrentUserId(Store, userId))
    /\ ret' = [Mutated("setCurrentUserId") EXCEPT !.arg.userId = userId,
                                                  !.arg.before = currentUserId]

ClearCaches ==
  /\ SetStore(clearCaches(Store))
  /\ ret' = Mutated("clearCaches")

AddMessages ==
  \E batch \in Batches :
    /\ Len(messages) + Len(batch) <= MaxLedger
    /\ SetStore(addMessages(Store, batch))
    /\ ret' = [Mutated("addMessages") EXCEPT !.arg.batch = batch]

\* addMessages with a batch that holds chat info without an id
AddMalformedMessages ==
  \E batch \in MalformedBatches :
    /\ Len(messages) + Len(batch) <= MaxLedger
    /\ SetStore(addMessages(Store, batch))
    /\ ret' = [Mutated("addMessages") EXCEPT !.arg.batch = batch]

RecategorizeAllMessages ==
  \E now \in Clock :
    /\ SetStore(recategorizeAllMessages(Store, now))
    /\ ret' = Mutated("recategorizeAllMessages")

\* A caller passes the chat info of a message it holds and a message it holds.
DetermineChatType ==
  \E i \in 1..Len(messages), j \in 1..Len(messages) :
    /\ IsDefined(messages[i].peerId)
    /\ LET r == determineChatType(Store, messages[i].peerId, messages[j])
       IN /\ SetStore(r.s)
          /\ ret' = Called("determineChatType",
                           [NoArg EXCEPT !.chat = messages[i].peerId,
                                         !.message = messages[j]], r)

VerifyMessageCategory ==
  \E i \in 1..Len(messages), category \in ChatType :
    LET r == verifyMessageCategory(Store, messages[i], category)
    IN /\ SetStore(r.s)
       /\ ret' = Called("verifyMessageCategory",
                        [NoArg EXCEPT !.message = messages[i], !.category = category], r)

IsPersonalMessage ==
  \E i \in 1..Len(messages) :
    LET r == isPersonalMessage(Store, messages[i])
    IN /\ SetStore(r.s)
       /\ ret' = Called("isPersonalMessage", [NoArg EXCEPT !.message = messages[i]], r)

GetPersonalMessages ==
  \E now \in Clock :
    LET r == getPersonalMessages(Store, now)
    IN /\ SetStore(r.s)
       /\ ret' = Retrieved("getPersonalMessages", PERSONAL, r)

GetNewsMessages ==
  \E now \in Clock :
    LET r == getNewsMessages(Store, now)
    IN /\ SetStore(r.s)
       /\ ret' = Retrieved("getNewsMessages", NEWS, r)

GetDiscussionMessages ==
  \E now \in Clock :
    LET r == getDiscussionMessages(Store, now)
    IN /\ SetStore(r.s)
       /\ ret' = Retrieved("getDiscussionMessages", DISCUSSION, r)

GetGroupedMessagesByCategory ==
  \E now \in Clock :
    LET r == getGroupedMessagesByCategory(Store, now)
    IN /\ SetStore(r.s)
       /\ ret' = Grouped("getGroupedMessagesByCategory", r)

Next ==
  \/ SetCurrentUserId
  \/ ClearCaches
  \/ AddMessages
  \/ RecategorizeAllMessages
  \/ DetermineChatType
  \/ VerifyMessageCategory
  \/ IsPersonalMessage
  \/ GetPersonalMessages
  \/ GetNewsMessages
  \/ GetDiscussionMessages
  \/ GetGroupedMessagesByCategory

Spec == Init /\ [][Next]_vars

\* determineChatType on any chat info and sender, between cache clears
DetermineAnyChatType ==
  \E chat \in ChatInfos, from \in Senders :
    LET message == Msg(1, PeerOf(chat), from, chat)
        r == determineChatType(Store, chat, message)
    IN /\ SetStore(r.s)
       /\ ret' = Called("determineChatType",
                        [NoArg EXCEPT !.chat = chat, !.message = message], r)

NextChatType == DetermineAnyChatType \/ ClearCaches

SpecChatType == Init /\ [][NextChatType]_vars

\* The service fed by a source that may leave the id out of the chat info
NextMalformed == Next \/ AddMalformedMessages

SpecMalformed == Init /\ [][NextMalformed]_vars

\* setCurrentUserId(0): the identity a caller passes when it has no id to give
SetZeroUserId ==
  /\ SetStore(setCurrentUserId(Store, 0))
  /\ ret' = [Mutated("setCurrentUserId") EXCEPT !.arg.userId = 0,
                                                !.arg.before = currentUserId]

NextZeroViewer == Next \/ SetZeroUserId

SpecZeroViewer == Init /\ [][NextZeroViewer]_vars

\* What a flow does when its `await getMockMessages()` is over: the batch goes into
\* the log of appended batches, and setMessages publishes the result unless the
\* continuation threw (the catch block publishes nothing).
Resumed(op, batch, r) ==
  /\ SetFields(r.s)
  /\ ret' = [Mutated(op) EXCEPT !.arg.batch = batch, !.value = r.value, !.threw = r.threw]

Published(r, batch) ==
  [page EXCEPT !.published = IF r.threw THEN @ ELSE r.value, !.log = Append(@, batch)]

\* fetchMessages up to its await (lines 236-242): the effect runs on mount
FetchStart ==
  /\ page.fetch = "idle"
  /\ SetFields(setCurrentUserId(Store, ViewerId))
  /\ ret' = [Mutated("setCurrentUserId") EXCEPT !.arg.userId = ViewerId,
                                                !.arg.before = currentUserId]
  /\ page' = [page EXCEPT !.fetch = "waiting"]

\* refreshMessages up to its await (lines 201-204): a click on the button, which the
\* page handles once its effect has run
RefreshStart ==
  \E i \in 1..MaxRefresh :
    /\ page.fetch # "idle"
    /\ page.refresh[i] = "idle"
    /\ page' = [page EXCEPT !.refresh[i] = "waiting"]
    /\ UNCHANGED <<messages, personalMessagesCache, newsMessagesCache,
                   discussionMessagesCache, chatTypeCache, currentUserId,
                   lastCategorization, ret>>

\* fetchMessages after its await (lines 245-253). The waits end in any order.
FetchResume ==
  \E batch \in MockBatches, now1 \in Clock, now2 \in Clock :
    /\ page.fetch = "waiting"
    /\ now1 <= now2
    /\ LET r == fetchResume(Store, batch, now1, now2)
       IN /\ Resumed("fetchMessages", batch, r)
          /\ page' = [Published(r, batch) EXCEPT !.fetch = "done"]

\* refreshMessages after its await (lines 207-212)
RefreshResume ==
  \E i \in 1..MaxRefresh, batch \in MockBatches, now \in Clock :
    /\ page.refresh[i] = "waiting"
    /\ LET r == refreshResume(Store, batch, now)
       IN /\ Resumed("refreshMessages", batch, r)
          /\ page' = [Published(r, batch) EXCEPT !.refresh[i] = "done"]

NextPage == FetchStart \/ RefreshStart \/ FetchResume \/ RefreshResume

SpecPage == Init /\ [][NextPage]_vars

----------------------------------------------------------------------------
(* Properties *)

Range(seq) == {seq[i] : i \in 1..Len(seq)}

Ledger == Range(messages)

Categories == {PERSONAL, NEWS, DISCUSSION}

\* The three sequences of the last getGroupedMessagesByCategory() call
GroupedReturned == ret.op = "getGroupedMessagesByCategory" /\ ~ret.threw

TitleOf(m) == m.peerId.title

MatchesNewsLexicon(m) == IsDefined(m.peerId) /\ isPublicChannelByName(TitleOf(m))

MatchesGroupLexicon(m) == IsDefined(m.peerId) /\ TruthyStr(TitleOf(m))
                            /\ testGroupPatterns(TitleOf(m))

\* C1: the three sequences returned by getGroupedMessagesByCategory() are pairwise
\* disjoint: no message, and no message id, is in two of them.
C1_GroupedDisjoint ==
  GroupedReturned =>
    \A a, b \in Categories :
      a # b => {m.id : m \in Range(ret.value[a])} \cap {m.id : m \in Range(ret.value[b])} = {}

\* The viewer v is the sender (from_id is a user peer with id v) or the peer
\* (peer_id is a user peer with id v) of message m.
Involves(m, v) ==
  \/ (IsDefined(m.from_id) /\ m.from_id.kind = "peerUser" /\ m.from_id.id = v)
  \/ (IsDefined(m.peer_id) /\ m.peer_id.kind = "peerUser" /\ m.peer_id.id = v)

\* C2: every message of the personal result returned under the current viewer
\* identity V, also after V was changed, has sender user id V or peer user id V.
C2_Reciprocity ==
  PERSONAL \in ret.called =>
    \A m \in Range(ret.last.personal) : Involves(m, currentUserId)

\* A personal result returned to viewer 201, a viewer identity set after construction,
\* holding the message user 201 sent in their own dialog (which does not involve 12345).
C2_Witness ==
  /\ ret.op = "getPersonalMessages"
  /\ currentUserId = IvanId
  /\ \E m \in Range(ret.value) : Involves(m, IvanId) /\ ~Involves(m, ViewerId)

\* What a retrieval of the category computes from the whole current ledger
Recomputed(category) == filterMessages(category, Store, 1, <<>>).value

ResultCachesEmpty ==
  /\ personalMessagesCache = EmptyMap
  /\ newsMessagesCache = EmptyMap
  /\ discussionMessagesCache = EmptyMap

\* C3: addMessages(batch), empty or not, leaves no cached result behind, and what a
\* retrieval returns afterwards is the result computed over the full current ledger:
\* every appended message the category admits is in it.
C3_InvalidatedByAppend ==
  /\ ret.op = "addMessages" => ResultCachesEmpty
  /\ \A category \in ret.called : ret.last[category] = Recomputed(category)

\* A retrieval has returned the last message of a ledger of two messages, together
\* with the first.
C3_Witness ==
  /\ Len(messages) = 2
  /\ ret.op \in {"getPersonalMessages", "getNewsMessages", "getDiscussionMessages"}
  /\ ret.value = messages

OpOf(category) ==
  CASE category = PERSONAL -> "getPersonalMessages"
    [] category = NEWS -> "getNewsMessages"
    [] category = DISCUSSION -> "getDiscussionMessages"

\* C4: a retrieval called again with no mutating call since its last call returns the
\* sequence it returned then (ret.last holds it; other retrievals, determineChatType
\* and verifyMessageCategory may have been called in between).
C4_RetrievalIdempotent ==
  [][\A category \in Categories :
       (category \in ret.called /\ ret'.op = OpOf(category) /\ ~ret'.threw)
         => ret'.value = ret.last[category]]_vars

\* getDiscussionMessages() has returned a non-empty sequence, not the one the news
\* retrieval gives, that is now cached under a non-zero epoch: the state a repeated
\* getDiscussionMessages() call starts from and, changing nothing, ends in.
C4_Witness ==
  /\ ret.op = "getDiscussionMessages"
  /\ DISCUSSION \in ret.called
  /\ Len(ret.value) > 0
  /\ lastCategorization > 0
  /\ MapHas(discussionMessagesCache, "discussion")
  /\ discussionMessagesCache["discussion"] = ret.value
  /\ ret.value # Recomputed(NEWS)

MutatingOps == {"new", "setCurrentUserId", "clearCaches", "addMessages",
                "recategorizeAllMessages"}

\* C5: a value determineChatType returned for a chat id stays the value of that id:
\* a call for an id in the cache returns the cached value whatever chat info and
\* message it is given, the value a call returns is the cached one afterwards, and no
\* call other than a cache-invalidating one changes or drops an entry.
C5_MemoStable ==
  [][/\ (ret'.op = "determineChatType" /\ ~ret'.threw) =>
          LET chatId == toString(ret'.arg.chat.id) IN
            /\ MapHas(chatTypeCache, chatId) => ret'.value = chatTypeCache[chatId]
            /\ MapHas(chatTypeCache', chatId) /\ chatTypeCache'[chatId] = ret'.value
     /\ ret'.op \notin MutatingOps =>
          \A chatId \in DOMAIN chatTypeCache :
            MapHas(chatTypeCache', chatId) /\ chatTypeCache'[chatId] = chatTypeCache[chatId]
    ]_vars

\* determineChatType returned the cached value of the chat id, which is not the value
\* the rules give for the chat info and message it was called with.
C5_Witness ==
  /\ ret.op = "determineChatType"
  /\ ret.value # computeChatType(ret.arg.chat, ret.arg.message)

\* The fixture's incoming direct message: from user 201, in the dialog with user 201
Incoming == Msg(8, Peer("peerUser", IvanId), Peer("peerUser", IvanId), UserChat)

\* C6: with viewer 12345 and a ledger of the one incoming direct message of user 201,
\* the grouped result has it in personal and in neither news nor discussion.
C6_IncomingIsPersonal ==
  (GroupedReturned /\ currentUserId = ViewerId /\ messages = <<Incoming>>) =>
    /\ Incoming \in Range(ret.value.personal)
    /\ Incoming \notin Range(ret.value.news)
    /\ Incoming \notin Range(ret.value.discussion)

TwoPartyGroup(m) ==
  /\ IsDefined(m.peer_id) /\ m.peer_id.kind = "peerChat"
  /\ IsDefined(m.peerId) /\ m.peerId.kind = "chat" /\ m.peerId.participants_count = 2
  /\ ~MatchesNewsLexicon(m) /\ ~MatchesGroupLexicon(m)

\* C7: with a viewer identity set, a message of a group with participant count 2 and a
\* title in neither lexicon is in the personal sequence of the grouped result.
C7_TwoPartyGroupIsPersonal ==
  (GroupedReturned /\ TruthyNum(currentUserId)) =>
    \A m \in Ledger : TwoPartyGroup(m) => m \in Range(ret.value.personal)

NewsTitled(m) == IsDefined(m.peer_id) /\ MatchesNewsLexicon(m)

\* C8: a ledger message with a peer reference and a title in the channel/news lexicon
\* is in every news result and in no personal and no discussion result.
C8_NewsTitleIsNews ==
  \A m \in Ledger :
    NewsTitled(m) =>
      /\ NEWS \in ret.called => m \in Range(ret.last.news)
      /\ PERSONAL \in ret.called => m \notin Range(ret.last.personal)
      /\ DISCUSSION \in ret.called => m \notin Range(ret.last.discussion)

\* The grouped result has in news a news-titled channel message that follows, in the
\* ledger, a message that made the shared chat id's cached type Discussion.
C8_Witness ==
  /\ GroupedReturned
  /\ Len(messages) = 2
  /\ NewsTitled(messages[2])
  /\ messages[2].peer_id.kind = "peerChannel"
  /\ MapHas(chatTypeCache, toString(messages[2].peerId.id))
  /\ chatTypeCache[toString(messages[2].peerId.id)] = DISCUSSION
  /\ messages[2] \in Range(ret.value.news)

DiscussionTitledGroup(m) ==
  /\ IsDefined(m.peer_id) /\ m.peer_id.kind = "peerChat"
  /\ IsDefined(m.peerId) /\ m.peerId.participants_count > 2
  /\ MatchesGroupLexicon(m) /\ ~MatchesNewsLexicon(m)

\* C9: a message of a group with participant count above 2 and a title in the group
\* lexicon only is in every discussion result and in no personal and no news result.
C9_TitledGroupIsDiscussion ==
  \A m \in Ledger :
    DiscussionTitledGroup(m) =>
      /\ DISCUSSION \in ret.called => m \in Range(ret.last.discussion)
      /\ PERSONAL \in ret.called => m \notin Range(ret.last.personal)
      /\ NEWS \in ret.called => m \notin Range(ret.last.news)

\* The grouped result has in discussion two messages of the group "Project
\* Discussion", one sent by a user and one sent by a channel.
C9_Witness ==
  /\ GroupedReturned
  /\ TruthyNum(currentUserId)
  /\ \E m, n \in Range(ret.value.discussion) :
       /\ DiscussionTitledGroup(m) /\ m.from_id.kind = "peerUser"
       /\ DiscussionTitledGroup(n) /\ n.from_id.kind = "peerChannel"

\* C10: with no viewer identity set, getPersonalMessages() returns the empty sequence
\* and raises no error, whatever the ledger holds.
C10_NoViewerNoPersonal ==
  (ret.op = "getPersonalMessages" /\ currentUserId = Null) =>
    ret.value = <<>> /\ ~ret.threw

\* getPersonalMessages() returned with no viewer identity set and a ledger holding a
\* direct message without a sender reference.
C10_Witness ==
  /\ ret.op = "getPersonalMessages"
  /\ currentUserId = Null
  /\ \E m \in Ledger : IsDefined(m.peer_id) /\ m.peer_id.kind = "peerUser"
                         /\ ~IsDefined(m.from_id)

\* Peer data that is absent or cannot be resolved: no peer_id, or no chat info in peerId
Unresolvable(m) == ~IsDefined(m.peer_id) \/ ~IsDefined(m.peerId)

\* C11: every message of a category result is a message of the ledger, and no message
\* without a peer reference or without attached chat info is in a category result.
C11_ResultsWithinLedger ==
  \A category \in ret.called :
    /\ Range(ret.last[category]) \subseteq Ledger
    /\ \A m \in Range(ret.last[category]) : ~Unresolvable(m)

\* C12: no call ends in an exception: determineChatType, verifyMessageCategory, the
\* three retrievals and the grouped retrieval return a value for every ledger, also
\* one that holds chat info without an id.
C12_NoException == ~ret.threw

\* A Map after clear(): no key
IsEmptyMap(m) == DOMAIN m = {}

AllCachesEmpty ==
  /\ IsEmptyMap(personalMessagesCache)
  /\ IsEmptyMap(newsMessagesCache)
  /\ IsEmptyMap(discussionMessagesCache)
  /\ IsEmptyMap(chatTypeCache)

\* C13: setCurrentUserId(id) makes id the viewer identity, leaves the four caches
\* empty and the epoch zero, and leaves the ledger as it was, whatever the viewer
\* identity was before, id itself included.
C13_SetCurrentUserIdResets ==
  [][ret'.op = "setCurrentUserId" =>
       /\ currentUserId' = ret'.arg.userId
       /\ AllCachesEmpty' /\ lastCategorization' = 0
       /\ messages' = messages]_vars

\* setCurrentUserId was called with the identity already set, on a ledger of two
\* messages.
C13_Witness ==
  /\ ret.op = "setCurrentUserId"
  /\ ret.arg.userId = ret.arg.before
  /\ Len(messages) = 2

\* C14: addMessages(batch) makes the ledger the old ledger followed by batch, in batch
\* order, leaves the four caches empty and the epoch zero, and keeps the viewer
\* identity; with an empty batch the ledger is the old ledger.
C14_AddMessagesAppends ==
  [][ret'.op = "addMessages" =>
       /\ messages' = messages \o ret'.arg.batch
       /\ ret'.arg.batch = <<>> => messages' = messages
       /\ AllCachesEmpty' /\ lastCategorization' = 0
       /\ currentUserId' = currentUserId]_vars

\* addMessages appended a batch of one message to a ledger of one other message.
C14_Witness ==
  /\ ret.op = "addMessages"
  /\ Len(ret.arg.batch) = 1
  /\ Len(messages) = 2
  /\ messages[2] = ret.arg.batch[1]
  /\ messages[1] # messages[2]

IsPrefix(a, b) == Len(a) <= Len(b) /\ SubSeq(b, 1, Len(a)) = a

\* C15: the ledger is append-only: across every call the old ledger is a prefix of the
\* new one, and every call other than addMessages leaves the ledger as it was.
C15_LedgerAppendOnly ==
  [][/\ IsPrefix(messages, messages')
     /\ ret'.op # "addMessages" => messages' = messages]_vars

\* addMessages has added a batch to a ledger that was not empty.
C15_Witness ==
  /\ ret.op = "addMessages"
  /\ ret.arg.batch # <<>>
  /\ Len(messages) > Len(ret.arg.batch)

\* C16: recategorizeAllMessages() leaves the four caches empty and the epoch non-zero,
\* and the retrieval that follows it returns what the filter computes from the ledger
\* (for the grouped retrieval: its personal sequence, which is computed first).
C16_RecategorizeRecomputes ==
  [][/\ ret'.op = "recategorizeAllMessages" =>
          AllCachesEmpty' /\ lastCategorization' # 0
     /\ (ret.op = "recategorizeAllMessages" /\ ~ret'.threw) =>
          /\ \A category \in Categories :
               ret'.op = OpOf(category) => ret'.value = Recomputed(category)
          /\ ret'.op = "getGroupedMessagesByCategory" =>
               ret'.value.personal = Recomputed(PERSONAL)
    ]_vars

\* recategorizeAllMessages() was called with a viewer set on a ledger of two messages
\* of which the personal filter keeps one.
C16_Witness ==
  /\ ret.op = "recategorizeAllMessages"
  /\ TruthyNum(currentUserId)
  /\ Len(messages) = 2
  /\ Len(Recomputed(PERSONAL)) = 1

\* C17: clearCaches() leaves the four caches empty and the epoch zero and keeps the
\* ledger and the viewer identity, and the state it leaves is the state a second
\* clearCaches() leaves.
C17_ClearCachesIdempotent ==
  [][ret'.op = "clearCaches" =>
       /\ AllCachesEmpty' /\ lastCategorization' = 0
       /\ messages' = messages /\ currentUserId' = currentUserId
       /\ clearCaches(Store)' = Store']_vars

\* clearCaches() was called with a viewer set and a ledger of two messages.
C17_Witness ==
  /\ ret.op = "clearCaches"
  /\ TruthyNum(currentUserId)
  /\ Len(messages) = 2

\* C18: verifyMessageCategory changes none of the ledger, the viewer identity, the
\* classification cache, the three result caches and the epoch.
C18_VerifyReadsOnly ==
  [][ret'.op = "verifyMessageCategory" =>
       UNCHANGED <<messages, currentUserId, chatTypeCache, personalMessagesCache,
                   newsMessagesCache, discussionMessagesCache, lastCategorization>>]_vars

\* C19: verifyMessageCategory(message, Personal) returns false when the chat is an
\* automated user or when neither the sender id nor the peer user id of the message is
\* the viewer id (no id is, when no viewer identity is set); for News and Discussion it
\* returns whether determineChatType(chat, message) is the asserted category.
C19_VerifyPersonalAdmission ==
  [][(ret'.op = "verifyMessageCategory" /\ ~ret'.threw
        /\ IsDefined(ret'.arg.message.peer_id) /\ IsDefined(ret'.arg.message.peerId)) =>
       LET message == ret'.arg.message
           category == ret'.arg.category
           chat == message.peerId
       IN /\ (category = PERSONAL
                /\ ((chat.kind = "user" /\ chat.bot) \/ ~Involves(message, currentUserId)))
              => ret'.value = FALSE
          /\ category \in {NEWS, DISCUSSION}
              => ret'.value = (determineChatType(Store, chat, message).value = category)
    ]_vars

\* C20: on a chat id that is not in the classification cache, determineChatType gives
\* News for a title in the channel/news lexicon or with a flag glyph, and otherwise
\* Discussion for a title in the group lexicon, whatever the chat kind, bot flag,
\* participant count and message are.
C20_TitleBeforeKind ==
  [][(ret'.op = "determineChatType" /\ ~ret'.threw
        /\ ~MapHas(chatTypeCache, toString(ret'.arg.chat.id))) =>
       LET title == ret'.arg.chat.title IN
         /\ isPublicChannelByName(title) => ret'.value = NEWS
         /\ (~isPublicChannelByName(title) /\ testGroupPatterns(title))
              => ret'.value = DISCUSSION
    ]_vars

\* determineChatType returned News for a group of two participants whose title is in
\* both lexicons, on an empty cache.
C20_Witness ==
  /\ ret.op = "determineChatType"
  /\ ret.arg.chat.kind = "chat"
  /\ ret.arg.chat.participants_count = 2
  /\ isPublicChannelByName(ret.arg.chat.title)
  /\ testGroupPatterns(ret.arg.chat.title)
  /\ DOMAIN chatTypeCache = {toString(ret.arg.chat.id)}
  /\ ret.value = NEWS

\* The step is a determineChatType call, for a chat id that is not in the cache, that
\* returned
UncachedCall ==
  /\ ret'.op = "determineChatType" /\ ~ret'.threw
  /\ ~MapHas(chatTypeCache, toString(ret'.arg.chat.id))

NoLexicon(title) == ~isPublicChannelByName(title) /\ ~testGroupPatterns(title)

SenderIsChannel(message) ==
  IsDefined(message.from_id) /\ message.from_id.kind = "peerChannel"

\* C21: for an uncached chat with a title in neither lexicon, determineChatType gives
\* Personal for a non-automated user, News for an automated user, Personal for a group
\* of two participants and News for a channel, whatever the sender of the message is.
C21_KindRules ==
  [][(UncachedCall /\ NoLexicon(ret'.arg.chat.title)) =>
       LET chat == ret'.arg.chat IN
         /\ (chat.kind = "user" /\ ~chat.bot) => ret'.value = PERSONAL
         /\ (chat.kind = "user" /\ chat.bot) => ret'.value = NEWS
         /\ (chat.kind = "chat" /\ chat.participants_count = 2) => ret'.value = PERSONAL
         /\ chat.kind = "channel" => ret'.value = NEWS
    ]_vars

\* determineChatType returned Personal for a plainly titled group of two participants
\* and a message sent by a channel, the chat id being the only cached one.
C21_Witness ==
  /\ ret.op = "determineChatType"
  /\ ret.arg.chat.kind = "chat"
  /\ ret.arg.chat.participants_count = 2
  /\ ret.arg.chat.title = "Family"
  /\ SenderIsChannel(ret.arg.message)
  /\ DOMAIN chatTypeCache = {toString(ret.arg.chat.id)}
  /\ ret.value = PERSONAL

\* C22: for an uncached group of more than two participants with a title in neither
\* lexicon, determineChatType gives Discussion whatever the message is, a message sent
\* by a channel included.
C22_GroupBeforeSender ==
  [][(UncachedCall /\ NoLexicon(ret'.arg.chat.title)
        /\ ret'.arg.chat.kind = "chat" /\ ret'.arg.chat.participants_count > 2)
       => ret'.value = DISCUSSION]_vars

\* C23: determineChatType gives Unknown for an uncached chat that matches no rule: a
\* title in neither lexicon, a kind that is neither user nor channel, not a group of
\* two or more participants, and a message that no channel sent.
C23_NoRuleIsUnknown ==
  [][(UncachedCall /\ NoLexicon(ret'.arg.chat.title)
        /\ ret'.arg.chat.kind \notin {"user", "channel"}
        /\ ~(ret'.arg.chat.kind = "chat" /\ ret'.arg.chat.participants_count >= 2)
        /\ ~SenderIsChannel(ret'.arg.message))
       => ret'.value = UNKNOWN]_vars

\* The peer of the message is a channel, or a user that is flagged automated
BroadcastPeer(m) ==
  /\ IsDefined(m.peer_id)
  /\ \/ m.peer_id.kind = "peerChannel"
     \/ (m.peer_id.kind = "peerUser" /\ IsDefined(m.peerId)
           /\ m.peerId.kind = "user" /\ m.peerId.bot)

\* C24: every ledger message whose peer is a channel or an automated user is in every
\* news result, whatever its title and the type of its chat are.
C24_BroadcastPeersAreNews ==
  NEWS \in ret.called =>
    \A m \in Ledger : BroadcastPeer(m) => m \in Range(ret.last.news)

\* The message has a peer reference and chat info and meets no direct news rule
NewsFallbackCase(m) ==
  /\ IsDefined(m.peer_id) /\ IsDefined(m.peerId)
  /\ ~BroadcastPeer(m)
  /\ ~MatchesNewsLexicon(m)

\* C25: a ledger message that meets no direct news rule is in the result of
\* getNewsMessages() exactly when determineChatType(chat, message) is News.
C25_NewsFallback ==
  (ret.op = "getNewsMessages" /\ ~ret.threw) =>
    \A m \in Ledger :
      NewsFallbackCase(m) =>
        (m \in Range(ret.value) <=> determineChatType(Store, m.peerId, m).value = NEWS)

\* The discussion admission rule: a chat or channel peer, a title outside the
\* channel/news lexicon, and a title in the group lexicon, or a group of more than two
\* participants, or a chat of type Discussion
DiscussionAdmitted(m) ==
  /\ IsDefined(m.peer_id)
  /\ m.peer_id.kind \in {"peerChat", "peerChannel"}
  /\ ~MatchesNewsLexicon(m)
  /\ \/ MatchesGroupLexicon(m)
     \/ (IsDefined(m.peerId) /\ m.peerId.kind = "chat" /\ m.peerId.participants_count > 2)
     \/ (IsDefined(m.peerId) /\ determineChatType(Store, m.peerId, m).value = DISCUSSION)

\* C26: getDiscussionMessages() returns exactly the ledger messages the discussion
\* admission rule admits.
C26_DiscussionAdmission ==
  (ret.op = "getDiscussionMessages" /\ ~ret.threw) =>
    Range(ret.value) = {m \in Ledger : DiscussionAdmitted(m)}

\* The result cache of the category
ResultCache(category) ==
  CASE category = PERSONAL -> personalMessagesCache
    [] category = NEWS -> newsMessagesCache
    [] category = DISCUSSION -> discussionMessagesCache

\* C27: with the epoch at zero, getNewsMessages, getDiscussionMessages and, with a
\* viewer set, getPersonalMessages leave the epoch non-zero and their result stored
\* under their category key; once non-zero, the epoch is changed by no call other than
\* clearCaches, setCurrentUserId, addMessages and recategorizeAllMessages.
C27_EpochFinalised ==
  [][/\ \A category \in Categories :
          (/\ lastCategorization = 0
           /\ ret'.op = OpOf(category) /\ ~ret'.threw
           /\ category = PERSONAL => TruthyNum(currentUserId))
          => /\ lastCategorization' # 0
             /\ MapHas(ResultCache(category)', category)
             /\ ResultCache(category)'[category] = ret'.value
     /\ (lastCategorization # 0 /\ ret'.op \notin MutatingOps)
          => lastCategorization' = lastCategorization
    ]_vars

\* Two retrievals have returned since the last mutating call, the later one being
\* getDiscussionMessages, and the epoch is non-zero.
C27_Witness ==
  /\ ret.op = "getDiscussionMessages"
  /\ ret.called = {NEWS, DISCUSSION}
  /\ Len(ret.last.news) > 0
  /\ lastCategorization # 0

\* C28: whenever a result cache holds an entry, the epoch is non-zero.
C28_CachedImpliesEpoch ==
  (\E category \in Categories : ~IsEmptyMap(ResultCache(category)))
    => lastCategorization # 0

\* The personal cache holds a non-empty result.
C28_Witness ==
  /\ MapHas(personalMessagesCache, "personal")
  /\ Len(personalMessagesCache["personal"]) > 0
  /\ lastCategorization # 0

\* C29: every message getGroupedMessagesByCategory() returned in a category passes
\* verifyMessageCategory(message, category) in the state the call left.
C29_GroupedPassVerify ==
  GroupedReturned =>
    \A category \in Categories :
      \A m \in Range(ret.value[category]) :
        verifyMessageCategory(Store, m, category).value = TRUE

\* What a retrieval of the category returns when it is the first call on freshly
\* cleared caches, with the ledger and the viewer identity of the current state
FirstRead(category) == filterMessages(category, clearCaches(Store), 1, <<>>).value

\* C30: what a retrieval returned since the caches were last cleared is what it
\* returns as the first call on cleared caches, whatever retrievals and
\* verifyMessageCategory calls were made before it.
C30_ReadOrderIndependent ==
  \A category \in ret.called : ret.last[category] = FirstRead(category)

\* The chat id a message belongs to: the numeric id its peer reference carries
ChatIdOf(m) == m.peer_id.id

\* C31: in the result of getGroupedMessagesByCategory() no chat id has messages in two
\* different categories, also when a user and a channel carry the same numeric id.
C31_ChatInOneCategory ==
  GroupedReturned =>
    \A a, b \in Categories :
      a # b => {ChatIdOf(m) : m \in Range(ret.value[a])}
                 \cap {ChatIdOf(m) : m \in Range(ret.value[b])} = {}

\* The number of positions of seq that hold m
Count(m, seq) == Cardinality({i \in 1..Len(seq) : seq[i] = m})

\* C32: addMessages never deduplicates: each append lengthens the ledger by the length
\* of its batch and adds one occurrence of a message per occurrence in the batch, also
\* when the ledger holds the message already, and a message a retrieval admits occurs
\* in the result as many times as in the ledger.
C32_NoDeduplication ==
  [][/\ ret'.op = "addMessages" =>
          /\ Len(messages') = Len(messages) + Len(ret'.arg.batch)
          /\ \A m \in Range(ret'.arg.batch) :
               Count(m, messages') = Count(m, messages) + Count(m, ret'.arg.batch)
     /\ \A category \in ret'.called :
          \A m \in Range(ret'.last[category]) :
            Count(m, ret'.last[category]) = Count(m, messages')
    ]_vars

\* The ledger holds one message twice, appended by two calls of addMessages with the
\* same batch or by one call, and the grouped retrieval returned it twice as news.
C32_Witness ==
  /\ GroupedReturned
  /\ Len(messages) = 2
  /\ messages[1] = messages[2]
  /\ ret.value.news = messages

\* What verifyMessageCategory(m, Personal) gives without its reciprocity check: chat
\* info that is there, is not an automated user and has no channel/news title, and a
\* chat typed Personal
PersonalWithoutReciprocity(m) ==
  /\ IsDefined(m.peer_id) /\ IsDefined(m.peerId)
  /\ ~(m.peerId.kind = "user" /\ m.peerId.bot)
  /\ ~MatchesNewsLexicon(m)
  /\ determineChatType(Store, m.peerId, m).value = PERSONAL

\* C33: with the viewer identity 0, getPersonalMessages() returns the empty sequence
\* and leaves the personal result cache and the epoch as they were, and
\* verifyMessageCategory(message, Personal) returns what it gives without the
\* reciprocity check.
C33_ZeroViewerIsUnset ==
  [][/\ (ret'.op = "getPersonalMessages" /\ currentUserId = 0) =>
          /\ ret'.value = <<>> /\ ~ret'.threw
          /\ personalMessagesCache' = personalMessagesCache
          /\ lastCategorization' = lastCategorization
     /\ (/\ ret'.op = "verifyMessageCategory"
         /\ ret'.arg.category = PERSONAL
         /\ currentUserId = 0) =>
          ret'.value = PersonalWithoutReciprocity(ret'.arg.message)
    ]_vars

\* Under the viewer identity 0, verifyMessageCategory(message, Personal) returned true
\* for a direct message whose sender and peer are another user, with no personal
\* result cached and the epoch zero.
C33_Witness ==
  /\ ret.op = "verifyMessageCategory"
  /\ ret.arg.category = PERSONAL
  /\ currentUserId = 0
  /\ ret.value = TRUE
  /\ ~Involves(ret.arg.message, 0)
  /\ IsEmptyMap(personalMessagesCache)
  /\ lastCategorization = 0

\* The batches of a log, one after the other
RECURSIVE Flatten(_)
Flatten(log) == IF log = <<>> THEN <<>> ELSE Head(log) \o Flatten(Tail(log))

\* The flows whose wait is over
FlowsDone ==
  (IF page.fetch = "done" THEN 1 ELSE 0)
    + Cardinality({i \in 1..MaxRefresh : page.refresh[i] = "done"})

\* What categorizeAndVerifyMessages gives on a store whose ledger is the given one
\* and whose caches are empty
VerifiedOver(ledger) ==
  categorizeAndVerifyMessages(clearCaches([Store EXCEPT !.messages = ledger]), 1).value

\* The step ends the wait of a flow and runs the flow to its end
FlowResumed == Len(page'.log) = Len(page.log) + 1

\* C34: however the fetch and the refresh flows interleave, the ledger is the batches
\* of the flows whose wait is over, in the order the waits ended, and what a flow
\* publishes is the grouped and verified result over the whole ledger as its own
\* addMessages left it: the old ledger followed by its batch.
C34_FlowsRunUninterrupted ==
  [][/\ messages' = Flatten(page'.log)
     /\ Len(page'.log) = FlowsDone'
     /\ FlowResumed =>
          /\ messages' = messages \o ret'.arg.batch
          /\ ~ret'.threw
          /\ page'.published = ret'.value
          /\ ret'.value = VerifiedOver(messages \o ret'.arg.batch)
    ]_vars

\* A refresh flow has published the messages of the fetch's batch and of its own, each
\* fixture message twice in the ledger, while the other refresh flow is still waiting.
C34_Witness ==
  /\ ret.op = "refreshMessages"
  /\ page.fetch = "done"
  /\ \E i \in 1..MaxRefresh : page.refresh[i] = "waiting"
  /\ Len(page.log) = 2
  /\ Len(messages) = 2 * Len(MockMessages)
  /\ Len(page.published.personal) = 2
  /\ Len(page.published.news) = 12
  /\ Len(page.published.discussion) = 2

====
